---------------------------- MODULE Spec2Model ----------------------------
(***************************************************************************)
(* A model of tools/xsd2proto/main.go (the namespace-aware XSD -> proto    *)
(* compiler of ddex-go): the schema graph loader, the namespace-to-unit    *)
(* mapper, the type translator, the declaration emitter and the driver.    *)
(*                                                                         *)
(* Go strings are sequences of one-character strings, so that the          *)
(* conversions of the code (casing, sanitising, suffixing, prefix          *)
(* matching) are computed character by character as the code does.  Only   *)
(* ASCII text is modelled.  Emitted text is kept as its abstract syntax    *)
(* (records of names, numbers, types and annotations) in emission order.   *)
(***************************************************************************)
EXTENDS Integers, Sequences, FiniteSets, TLC

VARIABLES
    fs,         \* the schema files on disk: absolute path -> what reading it gives
    curSpec,    \* the entry of specs being converted
    st,         \* the loadState of the run
    stack,      \* the active calls of loadSchemaGraph, the innermost last
    pc,         \* where convertSpec stands: start, load, emit, done
    err,        \* the error convertSpec returned, None for nil
    namespaces, \* the sorted namespaces of st.nsBundles
    pkgs,       \* namespace -> protoPkgInfo
    idx,        \* the position of the emission loop in namespaces
    written,    \* the calls of os.WriteFile that touched the disk, in order
    reads,      \* absolute path -> number of os.ReadFile calls on it
    run,        \* 1 in the first run of the tool, 2 in a repeated run
    firstRun,   \* what the first run wrote and returned, once it is repeated
    emitIn,     \* the declaration handed to the emitter on its own
    emitOut     \* what the emitter returned for it

vars == <<fs, curSpec, st, stack, pc, err, namespaces, pkgs, idx, written, reads, run,
          firstRun, emitIn, emitOut>>

None == [none |-> TRUE]

\* ------------------------------------------------------------------------
\* Go's strings package, on sequences of characters
\* ------------------------------------------------------------------------

Uppers == <<"A","B","C","D","E","F","G","H","I","J","K","L","M",
            "N","O","P","Q","R","S","T","U","V","W","X","Y","Z">>
Lowers == <<"a","b","c","d","e","f","g","h","i","j","k","l","m",
            "n","o","p","q","r","s","t","u","v","w","x","y","z">>
DigitChars == <<"0","1","2","3","4","5","6","7","8","9">>

IsUpperCh(c) == \E i \in 1..26 : Uppers[i] = c
IsLowerCh(c) == \E i \in 1..26 : Lowers[i] = c
IsDigitCh(c) == \E i \in 1..10 : DigitChars[i] = c

ToLowerCh(c) == IF IsUpperCh(c) THEN Lowers[CHOOSE i \in 1..26 : Uppers[i] = c] ELSE c
ToUpperCh(c) == IF IsLowerCh(c) THEN Uppers[CHOOSE i \in 1..26 : Lowers[i] = c] ELSE c

ToLower(s) == [i \in 1..Len(s) |-> ToLowerCh(s[i])]
ToUpper(s) == [i \in 1..Len(s) |-> ToUpperCh(s[i])]

HasPrefixAt(s, i, t) ==
    /\ i + Len(t) - 1 <= Len(s)
    /\ \A k \in 1..Len(t) : s[i + k - 1] = t[k]

Contains(s, t) == \E i \in 1..(Len(s) + 1) : HasPrefixAt(s, i, t)

\* strings.Index, 1-based; 0 when t does not occur in s
Index(s, t) ==
    IF Contains(s, t)
    THEN CHOOSE i \in 1..(Len(s) + 1) :
            /\ HasPrefixAt(s, i, t)
            /\ \A j \in 1..(i - 1) : ~HasPrefixAt(s, j, t)
    ELSE 0

RECURSIVE ReplaceAll(_, _, _)
ReplaceAll(s, old, new) ==
    IF s = <<>> THEN <<>>
    ELSE IF HasPrefixAt(s, 1, old)
         THEN new \o ReplaceAll(SubSeq(s, Len(old) + 1, Len(s)), old, new)
         ELSE <<s[1]>> \o ReplaceAll(Tail(s), old, new)

\* for strings.Contains(x, "__") { x = strings.ReplaceAll(x, "__", "_") }
RECURSIVE CollapseUnderscores(_)
CollapseUnderscores(s) ==
    IF Contains(s, <<"_","_">>)
    THEN CollapseUnderscores(ReplaceAll(s, <<"_","_">>, <<"_">>))
    ELSE s

RECURSIVE TrimLeft(_, _)
TrimLeft(s, c) == IF s # <<>> /\ s[1] = c THEN TrimLeft(Tail(s), c) ELSE s

RECURSIVE TrimRight(_, _)
TrimRight(s, c) ==
    IF s # <<>> /\ s[Len(s)] = c THEN TrimRight(SubSeq(s, 1, Len(s) - 1), c) ELSE s

Trim(s, c) == TrimRight(TrimLeft(s, c), c)

\* strings.Split with a non-empty separator: always at least one part
RECURSIVE Split(_, _)
\* the parts of s when the first occurrence of sep is at i (0: none)
splitAt(s, sep, i) ==
    IF i = 0 THEN <<s>>
    ELSE <<SubSeq(s, 1, i - 1)>> \o Split(SubSeq(s, i + Len(sep), Len(s)), sep)

Split(s, sep) == splitAt(s, sep, Index(s, sep))

RECURSIVE Join(_, _)
Join(parts, sep) ==
    IF parts = <<>> THEN <<>>
    ELSE IF Len(parts) = 1 THEN parts[1]
    ELSE parts[1] \o sep \o Join(Tail(parts), sep)

\* fmt.Sprintf("%d", n) for n >= 0
RECURSIVE Itoa(_)
Itoa(n) ==
    IF n < 10 THEN <<DigitChars[n + 1]>>
    ELSE Itoa(n \div 10) \o <<DigitChars[(n % 10) + 1]>>

\* ------------------------------------------------------------------------
\* Name helpers
\* ------------------------------------------------------------------------

\* an underscore before every upper-case letter but the first character,
\* every character lower-cased
toProtoFieldName(name) ==
    LET piece(i) == IF i > 1 /\ IsUpperCh(name[i])
                    THEN <<"_", ToLowerCh(name[i])>>
                    ELSE <<ToLowerCh(name[i])>>
        F[i \in 0..Len(name)] == IF i = 0 THEN <<>> ELSE F[i - 1] \o piece(i)
    IN F[Len(name)]

toProtoMessageName(name) ==
    IF name = <<>> THEN <<>> ELSE <<ToUpperCh(name[1])>> \o Tail(name)

toProtoEnumName(name) ==
    IF name = <<>> THEN <<>> ELSE <<ToUpperCh(name[1])>> \o Tail(name)

\* the chain of strings.ReplaceAll calls on the upper-cased value
enumValueReplaced(value) ==
    ReplaceAll(ReplaceAll(ReplaceAll(ReplaceAll(ReplaceAll(
    ReplaceAll(ReplaceAll(ReplaceAll(ReplaceAll(ReplaceAll(
        ToUpper(value),
        <<"-">>, <<"_">>), <<" ">>, <<"_">>), <<".">>, <<"_">>), <<"/">>, <<"_">>),
        <<"+">>, <<"_","P","L","U","S","_">>), <<"(">>, <<"_">>), <<")">>, <<"_">>),
        <<"'">>, <<"_">>), <<"\"">>, <<"_">>), <<"&">>, <<"_","A","N","D","_">>)

\* only A-Z, 0-9 and the underscore are kept
enumValueCleaned(result) ==
    SelectSeq(result, LAMBDA c : IsUpperCh(c) \/ IsDigitCh(c) \/ c = "_")

\* an empty value becomes UNKNOWN
enumValueNonEmpty(result) ==
    IF result = <<>> THEN <<"U","N","K","N","O","W","N">> ELSE result

\* a leading digit gets the prefix E_
enumValueLettered(result) ==
    IF IsDigitCh(result[1]) THEN <<"E","_">> \o result ELSE result

toProtoEnumValue(value) ==
    Trim(CollapseUnderscores(
            enumValueLettered(enumValueNonEmpty(enumValueCleaned(enumValueReplaced(value))))),
         "_")

\* ------------------------------------------------------------------------
\* Type translator
\* ------------------------------------------------------------------------

\* no namespace is ever found for a prefix
noMatchingPkg(prefix, order) == None

\* The namespaces of allPkgs whose lower-cased text contains the prefix, in
\* the order the `range allPkgs` loop meets them.  order is a permutation of
\* the map's keys: Go leaves the iteration order of a map unspecified.
RECURSIVE firstMatchingPkg(_, _)
firstMatchingPkg(prefix, order) ==
    IF order = <<>> THEN None
    ELSE IF Contains(ToLower(order[1]), prefix) THEN [ns |-> order[1]]
    ELSE firstMatchingPkg(prefix, Tail(order))

\* the part of the type before its first colon (split at colon, 0: none)
typePrefix(xsdType, colon) ==
    IF colon # 0 THEN SubSeq(xsdType, 1, colon - 1) ELSE <<>>

\* the part of the type after its first colon
typeLocal(xsdType, colon) ==
    IF colon # 0 THEN SubSeq(xsdType, colon + 1, Len(xsdType)) ELSE xsdType

\* the prefix is dropped and the type is never qualified
unqualifiedType(hit, local, allPkgs) == local

\* a type that no package is found for is rendered as nothing
qualifiedOrNoType(hit, local, allPkgs) ==
    IF hit # None
    THEN allPkgs[hit.ns].pkgName \o <<".">> \o local
    ELSE <<>>

\* the cross-namespace lookup: the type qualified with the package of the
\* namespace found for the prefix, or the bare local name
qualifiedType(hit, local, allPkgs) ==
    IF hit # None
    THEN allPkgs[hit.ns].pkgName \o <<".">> \o local
    ELSE local

\* a prefix is looked up among the packages before the table is consulted
translateTypeLookupFirst(prefix, xsdType, allPkgs, order) ==
    IF prefix # <<>> /\ firstMatchingPkg(prefix, order) # None
    THEN qualifiedType(firstMatchingPkg(prefix, order),
                       ReplaceAll(toProtoMessageName(xsdType), <<"_">>, <<>>), allPkgs)
    ELSE <<"s","t","r","i","n","g">>

\* the mapping once the prefix has been split off
translateType(prefix, xsdType, allPkgs, order) ==
    IF xsdType \in { <<"s","t","r","i","n","g">>,
                     <<"n","o","r","m","a","l","i","z","e","d","S","t","r","i","n","g">>,
                     <<"t","o","k","e","n">>,
                     <<"a","n","y","U","R","I">>,
                     <<"N","M","T","O","K","E","N">> }
    THEN <<"s","t","r","i","n","g">>
    ELSE IF xsdType \in { <<"i","n","t">>,
                          <<"i","n","t","e","g","e","r">>,
                          <<"p","o","s","i","t","i","v","e","I","n","t","e","g","e","r">>,
                          <<"P","o","s","i","t","i","v","e","I","n","t","e","g","e","r">> }
    THEN <<"i","n","t","3","2">>
    ELSE IF xsdType = <<"l","o","n","g">>
    THEN <<"i","n","t","6","4">>
    ELSE IF xsdType = <<"b","o","o","l","e","a","n">>
    THEN <<"b","o","o","l">>
    ELSE IF xsdType \in { <<"d","e","c","i","m","a","l">>, <<"f","l","o","a","t">> }
    THEN <<"s","t","r","i","n","g">>
    ELSE IF xsdType = <<"d","o","u","b","l","e">>
    THEN <<"d","o","u","b","l","e">>
    ELSE IF xsdType \in { <<"d","a","t","e","T","i","m","e">>,
                          <<"d","a","t","e">>,
                          <<"t","i","m","e">>,
                          <<"d","u","r","a","t","i","o","n">>,
                          <<"g","Y","e","a","r">>,
                          <<"G","Y","e","a","r">>,
                          <<"d","d","e","x","_","I","s","o","D","a","t","e">>,
                          <<"D","d","e","x","_","I","s","o","D","a","t","e">> }
    THEN <<"s","t","r","i","n","g">>
    ELSE IF xsdType = <<"b","a","s","e","6","4","B","i","n","a","r","y">>
    THEN <<"b","y","t","e","s">>
    ELSE IF prefix = <<"a","v","s">>
    THEN <<"s","t","r","i","n","g">>
    ELSE qualifiedType(IF prefix # <<>> /\ prefix # <<"x","s">>
                       THEN firstMatchingPkg(prefix, order) ELSE None,
                       ReplaceAll(toProtoMessageName(xsdType), <<"_">>, <<>>),
                       allPkgs)

\* the prefix is split off at the first colon: strings.Index and the slices
splitType(xsdType, colon, allPkgs, order) ==
    translateType(typePrefix(xsdType, colon), typeLocal(xsdType, colon), allPkgs, order)

xsdTypeToProto(xsdType, allPkgs, order) ==
    splitType(xsdType, Index(xsdType, <<":">>), allPkgs, order)


\* ------------------------------------------------------------------------
\* Declaration emitter: messages
\* ------------------------------------------------------------------------

\* usedFieldNames is a map from field name to the number of repeats seen
getUniqueFieldName(baseName, usedFieldNames) ==
    IF baseName \in DOMAIN usedFieldNames
    THEN LET count == usedFieldNames[baseName] + 1 IN
         [ name |-> baseName \o <<"_">> \o Itoa(count),
           used |-> [usedFieldNames EXCEPT ![baseName] = count] ]
    ELSE [ name |-> baseName,
           used |-> [n \in DOMAIN usedFieldNames \cup {baseName} |->
                        IF n = baseName THEN 0 ELSE usedFieldNames[n]] ]

\* One emitted field: its number, name, rendered type, the `repeated`
\* label, whether it stands inside the oneof group, and the text of the
\* @gotags xml annotation.  u is what getUniqueFieldName returned; the
\* result carries the updated name table.
fieldLine(u, fieldNum, type, repeated, oneof, xml) ==
    [ field |-> [ num      |-> fieldNum,
                  name     |-> u.name,
                  type     |-> type,
                  repeated |-> repeated,
                  oneof    |-> oneof,
                  xml      |-> xml ],
      used  |-> u.used ]

\* the rendered type of an element or attribute: string when it has none
fieldType(type, allPkgs, order) ==
    IF type # <<>> THEN xsdTypeToProto(type, allPkgs, order) ELSE <<"s","t","r","i","n","g">>

\* repeated for every maxOccurs that allows more than one occurrence
generateFieldRepeatedWhenMany(element, fieldNum, allPkgs, usedFieldNames, order) ==
    fieldLine(getUniqueFieldName(toProtoFieldName(element.Name), usedFieldNames),
              fieldNum,
              fieldType(element.Type, allPkgs, order),
              element.MaxOccurs \notin { <<>>, <<"0">>, <<"1">> },
              FALSE,
              element.Name)

generateFieldWithDedup(element, fieldNum, allPkgs, usedFieldNames, order) ==
    fieldLine(getUniqueFieldName(toProtoFieldName(element.Name), usedFieldNames),
              fieldNum,
              fieldType(element.Type, allPkgs, order),
              element.MaxOccurs = <<"u","n","b","o","u","n","d","e","d">>,
              FALSE,
              element.Name)

\* a choice member rendered like a sequence element: repeated when unbounded
generateChoiceFieldRepeatable(element, fieldNum, allPkgs, usedFieldNames, order) ==
    fieldLine(getUniqueFieldName(toProtoFieldName(element.Name), usedFieldNames),
              fieldNum,
              fieldType(element.Type, allPkgs, order),
              element.MaxOccurs = <<"u","n","b","o","u","n","d","e","d">>,
              TRUE,
              element.Name)

generateChoiceFieldWithDedup(element, fieldNum, allPkgs, usedFieldNames, order) ==
    fieldLine(getUniqueFieldName(toProtoFieldName(element.Name), usedFieldNames),
              fieldNum,
              fieldType(element.Type, allPkgs, order),
              FALSE,
              TRUE,
              element.Name)

\* the attribute annotated like an element
generateAttributeFieldAsElement(attr, fieldNum, allPkgs, usedFieldNames, order) ==
    fieldLine(getUniqueFieldName(toProtoFieldName(attr.Name), usedFieldNames),
              fieldNum,
              fieldType(attr.Type, allPkgs, order),
              FALSE,
              FALSE,
              attr.Name)

generateAttributeFieldWithDedup(attr, fieldNum, allPkgs, usedFieldNames, order) ==
    fieldLine(getUniqueFieldName(toProtoFieldName(attr.Name), usedFieldNames),
              fieldNum,
              fieldType(attr.Type, allPkgs, order),
              FALSE,
              FALSE,
              attr.Name \o <<",","a","t","t","r">>)

\* The builder state of generateComplexTypeMessage: the fields written so
\* far, the number of `oneof choice {` groups opened, the fieldNum counter
\* and the usedFieldNames table.
newMessageBuilder ==
    [ fields |-> <<>>, oneofs |-> 0, fieldNum |-> 1, used |-> <<>> ]

\* b.WriteString(field); fieldNum++ with the name table the call updated
writeField(m, g) ==
    [m EXCEPT !.fields = Append(@, g.field),
              !.fieldNum = @ + 1,
              !.used = g.used]

\* sequence -> fields
RECURSIVE emitSequence(_, _, _, _)
emitSequence(m, elements, allPkgs, order) ==
    IF elements = <<>> THEN m
    ELSE emitSequence(
            writeField(m, generateFieldWithDedup(elements[1], m.fieldNum, allPkgs,
                                                 m.used, order)),
            Tail(elements), allPkgs, order)

\* choice -> oneof
RECURSIVE emitChoiceMembers(_, _, _, _)
emitChoiceMembers(m, elements, allPkgs, order) ==
    IF elements = <<>> THEN m
    ELSE emitChoiceMembers(
            writeField(m, generateChoiceFieldWithDedup(elements[1], m.fieldNum, allPkgs,
                                                       m.used, order)),
            Tail(elements), allPkgs, order)

RECURSIVE emitAttributes(_, _, _, _)
emitAttributes(m, attrs, allPkgs, order) ==
    IF attrs = <<>> THEN m
    ELSE emitAttributes(
            writeField(m, generateAttributeFieldWithDedup(attrs[1], m.fieldNum, allPkgs,
                                                          m.used, order)),
            Tail(attrs), allPkgs, order)

\* the value field written without fieldNum++ after it
emitValueFieldNoIncrement(m) ==
    [ writeField(m, fieldLine(getUniqueFieldName(<<"v","a","l","u","e">>, m.used),
                              m.fieldNum,
                              <<"s","t","r","i","n","g">>,
                              FALSE,
                              FALSE,
                              <<",","c","h","a","r","d","a","t","a">>))
      EXCEPT !.fieldNum = m.fieldNum ]

\* simpleContent extension -> the chardata value field
emitValueField(m) ==
    writeField(m, fieldLine(getUniqueFieldName(<<"v","a","l","u","e">>, m.used),
                            m.fieldNum,
                            <<"s","t","r","i","n","g">>,
                            FALSE,
                            FALSE,
                            <<",","c","h","a","r","d","a","t","a">>))

\* A complex type is [Name, Sequence, Choice, SimpleContent, Attributes];
\* an absent Sequence, Choice or SimpleContent (a nil pointer) is None, a
\* present one is a record ([Elements], [MinOccurs, MaxOccurs, Elements],
\* [Extension], the Extension None or [Base, Attributes]).

\* if complexType.Sequence != nil
sequenceSection(m, complexType, allPkgs, order) ==
    IF complexType.Sequence # None
    THEN emitSequence(m, complexType.Sequence.Elements, allPkgs, order)
    ELSE m

\* if complexType.Choice != nil && len(complexType.Choice.Elements) > 0
choiceSection(m, complexType, allPkgs, order) ==
    IF complexType.Choice # None /\ Len(complexType.Choice.Elements) > 0
    THEN emitChoiceMembers([m EXCEPT !.oneofs = @ + 1],
                           complexType.Choice.Elements, allPkgs, order)
    ELSE m

\* if complexType.SimpleContent != nil && complexType.SimpleContent.Extension != nil
extensionSection(m, complexType, allPkgs, order) ==
    IF /\ complexType.SimpleContent # None
       /\ complexType.SimpleContent.Extension # None
    THEN emitAttributes(emitValueField(m),
                        complexType.SimpleContent.Extension.Attributes,
                        allPkgs, order)
    ELSE m

\* direct attributes
attributeSection(m, complexType, allPkgs, order) ==
    emitAttributes(m, complexType.Attributes, allPkgs, order)

\* the message block closed around what the builder holds
messageBlock(name, m) ==
    [ kind   |-> "message",
      name   |-> toProtoMessageName(name),
      fields |-> m.fields,
      oneofs |-> m.oneofs ]

generateComplexTypeMessage(name, complexType, allPkgs, order) ==
    messageBlock(name,
        attributeSection(
            extensionSection(
                choiceSection(
                    sequenceSection(newMessageBuilder, complexType, allPkgs, order),
                    complexType, allPkgs, order),
                complexType, allPkgs, order),
            complexType, allPkgs, order))

\* ------------------------------------------------------------------------
\* Declaration emitter: enums
\* ------------------------------------------------------------------------

\* The state of the loop over Restriction.Enumerations: the values written
\* so far, the seenValues set and valueIndex.
newEnumBuilder(sentinel) ==
    [ members |-> <<sentinel>>, seenValues |-> {}, valueIndex |-> 1 ]

\* a skipped value uses up its number
writeEnumValueCountingSkipped(e, enumValue) ==
    IF enumValue \in e.seenValues
    THEN [e EXCEPT !.valueIndex = @ + 1]
    ELSE [ members    |-> Append(e.members, [name |-> enumValue, value |-> e.valueIndex]),
           seenValues |-> e.seenValues \cup {enumValue},
           valueIndex |-> e.valueIndex + 1 ]

\* one iteration: a value seen before is skipped
writeEnumValue(e, enumValue) ==
    IF enumValue \in e.seenValues
    THEN e
    ELSE [ members    |-> Append(e.members, [name |-> enumValue, value |-> e.valueIndex]),
           seenValues |-> e.seenValues \cup {enumValue},
           valueIndex |-> e.valueIndex + 1 ]

RECURSIVE emitEnumValues(_, _, _)
emitEnumValues(e, enumPrefix, enumerations) ==
    IF enumerations = <<>> THEN e
    ELSE emitEnumValues(
            writeEnumValue(e, enumPrefix \o <<"_">> \o toProtoEnumValue(enumerations[1])),
            enumPrefix, Tail(enumerations))

\* the enum block: the UNSPECIFIED value first, then the loop
enumBlock(enumName, enumPrefix, enumerations) ==
    [ kind    |-> "enum",
      name    |-> enumName,
      members |-> emitEnumValues(
                    newEnumBuilder([ name  |-> enumPrefix \o <<"_","U","N","S","P","E","C","I","F","I","E","D">>,
                                     value |-> 0 ]),
                    enumPrefix, enumerations).members ]

\* A simple type is [Name, Restriction], the Restriction None or
\* [Base, Enumerations] with Enumerations the literal values in order.
generateEnum(simpleType) ==
    enumBlock(ReplaceAll(toProtoMessageName(simpleType.Name), <<"_">>, <<>>),
              CollapseUnderscores(ToUpper(toProtoFieldName(simpleType.Name))),
              simpleType.Restriction.Enumerations)

\* ------------------------------------------------------------------------
\* path/filepath on POSIX, on sequences of characters
\* ------------------------------------------------------------------------

RECURSIVE cleanSegments(_, _, _)
cleanSegments(kept, segs, rooted) ==
    IF segs = <<>> THEN kept
    ELSE LET s == segs[1] IN
         IF s = <<>> \/ s = <<".">>
         THEN cleanSegments(kept, Tail(segs), rooted)
         ELSE IF s = <<".",".">>
         THEN IF kept # <<>> /\ kept[Len(kept)] # <<".",".">>
              THEN cleanSegments(SubSeq(kept, 1, Len(kept) - 1), Tail(segs), rooted)
              ELSE IF rooted
                   THEN cleanSegments(kept, Tail(segs), rooted)
                   ELSE cleanSegments(Append(kept, s), Tail(segs), rooted)
         ELSE cleanSegments(Append(kept, s), Tail(segs), rooted)

\* the cleaned path put together from its kept segments
cleanResult(rooted, body) ==
    IF rooted THEN <<"/">> \o body
    ELSE IF body = <<>> THEN <<".">> ELSE body

\* filepath.Clean
Clean(path) ==
    IF path = <<>> THEN <<".">>
    ELSE cleanResult(path[1] = "/",
                     Join(cleanSegments(<<>>, Split(path, <<"/">>), path[1] = "/"), <<"/">>))

\* filepath.Join: the non-empty elements joined by the separator and cleaned
joinNonEmpty(nonEmpty) ==
    IF nonEmpty = <<>> THEN <<>> ELSE Clean(Join(nonEmpty, <<"/">>))

filepathJoin(elems) == joinNonEmpty(SelectSeq(elems, LAMBDA e : e # <<>>))

\* filepath.Dir: the path up to its last separator, cleaned
filepathDir(path) ==
    LET seps == {i \in 1..Len(path) : path[i] = "/"} IN
    IF seps = {} THEN <<".">>
    ELSE Clean(SubSeq(path, 1, CHOOSE i \in seps : \A j \in seps : j <= i))

\* the working directory the tool is started in (the repository root)
Cwd == <<"/","w">>

\* filepath.Abs
filepathAbs(path) ==
    IF path # <<>> /\ path[1] = "/" THEN Clean(path) ELSE filepathJoin(<<Cwd, path>>)

toPosixPath(p) == ReplaceAll(p, <<"/">>, <<"/">>)

\* ------------------------------------------------------------------------
\* Namespace -> package mapping
\* ------------------------------------------------------------------------

\* url.Parse for namespaces without fragment, query, user info or escapes:
\* an optional scheme, then either //host/path, an opaque rest (a scheme
\* followed by text that does not start with a slash) or a bare path.
isSchemeCh(ch) ==
    IsUpperCh(ch) \/ IsLowerCh(ch) \/ IsDigitCh(ch) \/ ch \in {"+", "-", "."}

\* whether the text before the colon at c is a scheme
hasScheme(ns, c) ==
    /\ c > 1
    /\ IsUpperCh(ns[1]) \/ IsLowerCh(ns[1])
    /\ \A i \in 1..(c - 1) : isSchemeCh(ns[i])

\* //host/path: the authority ends at the first slash
parseAuthority(after, slash) ==
    IF slash = 0
    THEN [Host |-> after, Path |-> <<>>]
    ELSE [Host |-> SubSeq(after, 1, slash - 1),
          Path |-> SubSeq(after, slash, Len(after))]

\* what follows the scheme
parseRest(rest, scheme) ==
    IF HasPrefixAt(rest, 1, <<"/","/">>)
    THEN parseAuthority(SubSeq(rest, 3, Len(rest)),
                        Index(SubSeq(rest, 3, Len(rest)), <<"/">>))
    ELSE IF scheme /\ ~HasPrefixAt(rest, 1, <<"/">>)
    THEN [Host |-> <<>>, Path |-> <<>>]
    ELSE [Host |-> <<>>, Path |-> rest]

parseScheme(ns, c) ==
    parseRest(IF hasScheme(ns, c) THEN SubSeq(ns, c + 1, Len(ns)) ELSE ns, hasScheme(ns, c))

parseURL(ns) == parseScheme(ns, Index(ns, <<":">>))

\* host and the path split at its slashes, without leading or trailing ones
hostAndParts(u) ==
    [host |-> u.Host, parts |-> Split(Trim(u.Path, "/"), <<"/">>)]

splitNS(ns) == hostAndParts(parseURL(ns))

Reverse(parts) == [i \in 1..Len(parts) |-> parts[Len(parts) + 1 - i]]

reverseHost(h) ==
    IF h = <<>> THEN <<"u","n","k","n","o","w","n">>
    ELSE Join(Reverse(Split(h, <<".">>)), <<".">>)

isDigits(s) == s # <<>> /\ \A i \in 1..Len(s) : IsDigitCh(s[i])

sanitizePackage(p) == ReplaceAll(ReplaceAll(p, <<"-">>, <<"_">>), <<" ">>, <<"_">>)

TrimPrefix(s, prefix) ==
    IF HasPrefixAt(s, 1, prefix) THEN SubSeq(s, Len(prefix) + 1, Len(s)) ELSE s

stripLeadingV(s) == TrimPrefix(ToLower(s), <<"v">>)

isAVSPart(part) ==
    part \in { <<"a","v","s">>,
               <<"a","l","l","o","w","e","d","-","v","a","l","u","e","-","s","e","t","s">>,
               <<"a","l","l","o","w","e","d","_","v","a","l","u","e","_","s","e","t","s">> }

entryLike(sp, spec) ==
    IF sp.host # <<"d","d","e","x",".","n","e","t">> \/ Len(sp.parts) < 3 \/ sp.parts[1] # <<"x","m","l">>
    THEN FALSE
    ELSE IF isAVSPart(sp.parts[2]) THEN FALSE
    ELSE /\ sp.parts[2] = spec.name
         /\ isDigits(sp.parts[3])
         /\ sp.parts[3] = stripLeadingV(spec.version)

looksLikeEntry(ns, spec) == entryLike(splitNS(ns), spec)

\* the package for a namespace split into host and pathParts (n of them)
packageOf(host, pathParts, n, ns, spec) ==
    IF /\ host = <<"d","d","e","x",".","n","e","t">> /\ n >= 2 /\ pathParts[1] = <<"x","m","l">>
       /\ isAVSPart(pathParts[2])
    THEN IF spec.name = <<"a","v","s">>
         THEN <<"d","d","e","x",".">> \o <<"a","v","s">> \o <<".","v">> \o spec.version
         ELSE <<"d","d","e","x",".">> \o <<"a","v","s">>
    ELSE IF /\ host = <<"d","d","e","x",".","n","e","t">> /\ n >= 3 /\ pathParts[1] = <<"x","m","l">>
            /\ isDigits(pathParts[3])
    THEN <<"d","d","e","x",".">> \o pathParts[2] \o <<".","v">> \o pathParts[3]
    ELSE IF looksLikeEntry(ns, spec)
    THEN <<"d","d","e","x",".">> \o spec.name \o <<".","v">> \o spec.version
    ELSE IF n > 0 /\ isDigits(pathParts[n])
    THEN sanitizePackage(Join(<<reverseHost(host)>> \o SubSeq(pathParts, 1, n - 1)
                                \o << <<"v">> \o pathParts[n] >>, <<".">>))
    ELSE sanitizePackage(Join(<<reverseHost(host)>> \o pathParts, <<".">>))

packageOfSplit(sp, ns, spec) == packageOf(sp.host, sp.parts, Len(sp.parts), ns, spec)

namespaceToProtoPackage(ns, bundle, spec) == packageOfSplit(splitNS(ns), ns, spec)

namespaceToGoPackage(ns, bundle, spec) ==
    <<"g","i","t","h","u","b",".","c","o","m","/","a","l","e","c","s","a","v","v","y","/","d","d","e","x","-","g","o","/","g","e","n","/">>
        \o ReplaceAll(namespaceToProtoPackage(ns, bundle, spec), <<".">>, <<"/">>)

\* the last segment is the file stem only, not a directory
pathOfPartsFlat(parts) ==
    filepathJoin(<< Join(SubSeq(parts, 1, Len(parts) - 1), <<"/">>),
                    parts[Len(parts)] \o <<".","p","r","o","t","o">> >>)

pathOfParts(parts) ==
    filepathJoin(<< Join(parts, <<"/">>),
                    parts[Len(parts)] \o <<".","p","r","o","t","o">> >>)

packageToPath(pkg) == pathOfParts(Split(pkg, <<".">>))

\* the value convertSpec stores in pkgs[ns]
pkgInfo(pkg, gopkg) ==
    [ pkgName   |-> pkg,
      goPackage |-> gopkg,
      filePath  |-> packageToPath(pkg) ]

protoPkgInfo(ns, bundle, spec) ==
    pkgInfo(namespaceToProtoPackage(ns, bundle, spec), namespaceToGoPackage(ns, bundle, spec))


\* sort.Strings compares byte-wise; the printable ASCII characters in order
\* (the grave accent, which no modelled name contains, is left out)
AsciiOrder == <<" ","!","\"","#","$","%","&","'","(",")","*","+",",","-",".","/",
                "0","1","2","3","4","5","6","7","8","9",":",";","<","=",">","?","@",
                "A","B","C","D","E","F","G","H","I","J","K","L","M","N","O","P","Q",
                "R","S","T","U","V","W","X","Y","Z","[","\\","]","^","_",
                "a","b","c","d","e","f","g","h","i","j","k","l","m","n","o","p","q",
                "r","s","t","u","v","w","x","y","z","{","|","}","~">>

Ord(c) == CHOOSE i \in 1..Len(AsciiOrder) : AsciiOrder[i] = c

RECURSIVE StrLess(_, _)
StrLess(a, b) ==
    IF b = <<>> THEN FALSE
    ELSE IF a = <<>> THEN TRUE
    ELSE IF a[1] = b[1] THEN StrLess(Tail(a), Tail(b))
    ELSE Ord(a[1]) < Ord(b[1])

\* the keys in the order the range loop happened to meet them, here the
\* descending one: sort.Strings left out
RECURSIVE keysUnsorted(_)
keysUnsorted(S) ==
    IF S = {} THEN <<>>
    ELSE LET greatest == CHOOSE x \in S : \A y \in S \ {x} : StrLess(y, x) IN
         <<greatest>> \o keysUnsorted(S \ {greatest})

\* the keys of a map, collected by a range loop and then sorted
RECURSIVE sortStrings(_)
sortStrings(S) ==
    IF S = {} THEN <<>>
    ELSE LET least == CHOOSE x \in S : \A y \in S \ {x} : StrLess(x, y) IN
         <<least>> \o sortStrings(S \ {least})

\* a Go map as a function; m[k] = v
MapPut(m, k, v) == [x \in DOMAIN m \cup {k} |-> IF x = k THEN v ELSE m[x]]

\* ------------------------------------------------------------------------
\* The spec list and the file system
\* ------------------------------------------------------------------------

specs == <<
    [name |-> <<"a","v","s">>,  version |-> <<"l","a","t","e","s","t">>,   mainFile |-> <<"a","l","l","o","w","e","d","-","v","a","l","u","e","-","s","e","t","s",".","x","s","d">>],
    [name |-> <<"a","v","s">>,  version |-> <<"2","0","2","0","0","1","0","8">>, mainFile |-> <<"a","v","s","_","2","0","2","0","0","1","0","8",".","x","s","d">>],
    [name |-> <<"e","r","n">>,  version |-> <<"4","3">>,       mainFile |-> <<"r","e","l","e","a","s","e","-","n","o","t","i","f","i","c","a","t","i","o","n",".","x","s","d">>],
    [name |-> <<"e","r","n">>,  version |-> <<"4","3","2">>,      mainFile |-> <<"r","e","l","e","a","s","e","-","n","o","t","i","f","i","c","a","t","i","o","n",".","x","s","d">>],
    [name |-> <<"m","e","a","d">>, version |-> <<"1","1">>,
     mainFile |-> <<"m","e","d","i","a","-","e","n","r","i","c","h","m","e","n","t","-","a","n","d","-","d","e","s","c","r","i","p","t","i","o","n",".","x","s","d">>],
    [name |-> <<"p","i","e">>,  version |-> <<"1","0">>,
     mainFile |-> <<"p","a","r","t","y","-","i","d","e","n","t","i","f","i","c","a","t","i","o","n","-","a","n","d","-","e","n","r","i","c","h","m","e","n","t",".","x","s","d">>],
    [name |-> <<"e","r","n">>,  version |-> <<"3","8","3">>,      mainFile |-> <<"r","e","l","e","a","s","e","-","n","o","t","i","f","i","c","a","t","i","o","n",".","x","s","d">>] >>

AVSNamespaces == { <<"h","t","t","p",":","/","/","d","d","e","x",".","n","e","t","/","x","m","l","/","a","v","s","/","a","v","s">>,
                   <<"h","t","t","p",":","/","/","d","d","e","x",".","n","e","t","/","x","m","l","/","a","l","l","o","w","e","d","-","v","a","l","u","e","-","s","e","t","s">> }

\* ------------------------------------------------------------------------
\* Graph loader
\* ------------------------------------------------------------------------

newLoadState ==
    [ visitedFiles      |-> {},
      nsBundles         |-> <<>>,
      fileToNS          |-> <<>>,
      avsVersionContext |-> <<>> ]

\* a date part of 8 characters, all of them digits
checkDatePart(datePart) ==
    IF Len(datePart) = 8
    THEN IF \A i \in 1..8 : IsDigitCh(datePart[i]) THEN datePart ELSE <<>>
    ELSE <<>>

\* the text between "avs_" and the next dot
datePartOf(parts) ==
    IF Len(parts) >= 2 THEN checkDatePart(Split(parts[2], <<".">>)[1]) ELSE <<>>

detectAVSVersion(schemaLocation) ==
    IF Contains(schemaLocation, <<"a","v","s","_">>)
    THEN datePartOf(Split(schemaLocation, <<"a","v","s","_">>))
    ELSE <<>>

\* get or create the namespace bundle
bundleFor(s, ns) ==
    IF ns \in DOMAIN s.nsBundles
    THEN s.nsBundles[ns]
    ELSE [ TargetNamespace |-> ns,
           Elements        |-> <<>>,
           ComplexTypes    |-> <<>>,
           SimpleTypes     |-> <<>>,
           Imports         |-> {},
           AVSVersion      |-> <<>> ]

\* merge components (includes naturally collapse here)
mergeComponents(b, schema) ==
    [b EXCEPT !.Elements     = @ \o schema.Elements,
              !.ComplexTypes = @ \o schema.ComplexTypes,
              !.SimpleTypes  = @ \o schema.SimpleTypes]

\* only an import with a location is recorded
RECURSIVE trackImportsWithLocation(_, _, _)
trackImportsWithLocation(s, targetNamespace, imports) ==
    IF imports = <<>> THEN s
    ELSE LET imp == imports[1]
             s1  == IF /\ imp.Namespace # <<>> /\ imp.Namespace # targetNamespace
                       /\ imp.SchemaLocation # <<>>
                    THEN LET b  == s.nsBundles[targetNamespace]
                             sb == [s EXCEPT !.nsBundles[targetNamespace] =
                                        [b EXCEPT !.Imports = @ \cup {imp.Namespace}]]
                         IN IF imp.Namespace \in AVSNamespaces
                            THEN [sb EXCEPT !.avsVersionContext =
                                     MapPut(@, targetNamespace,
                                            detectAVSVersion(imp.SchemaLocation))]
                            ELSE sb
                    ELSE s
         IN trackImportsWithLocation(s1, targetNamespace, Tail(imports))

\* track declared imports by namespace and detect the AVS version context
RECURSIVE trackImports(_, _, _)
trackImports(s, targetNamespace, imports) ==
    IF imports = <<>> THEN s
    ELSE LET imp == imports[1]
             s1  == IF imp.Namespace # <<>> /\ imp.Namespace # targetNamespace
                    THEN LET b  == s.nsBundles[targetNamespace]
                             sb == [s EXCEPT !.nsBundles[targetNamespace] =
                                        [b EXCEPT !.Imports = @ \cup {imp.Namespace}]]
                         IN IF imp.Namespace \in AVSNamespaces
                            THEN [sb EXCEPT !.avsVersionContext =
                                     MapPut(@, targetNamespace,
                                            detectAVSVersion(imp.SchemaLocation))]
                            ELSE sb
                    ELSE s
         IN trackImports(s1, targetNamespace, Tail(imports))

\* what os.ReadFile and xml.Unmarshal make of the file at abs: a file
\* outside the modelled tree does not exist
readFile(files, abs) ==
    IF abs \in DOMAIN files THEN files[abs] ELSE [status |-> "notexist"]

\* the document is accepted without a look at its targetNamespace
checkSchemaNoNamespace(files, abs) ==
    IF readFile(files, abs).status \in {"notexist", "unreadable"}
    THEN [kind |-> "read", file |-> abs]
    ELSE IF readFile(files, abs).status = "garbage" THEN [kind |-> "parse", file |-> abs]
    ELSE None

\* The outcome of reading and checking the document at abs: the error
\* loadSchemaGraph returns, or None when the document is accepted.
checkSchema(files, abs) ==
    LET f == readFile(files, abs) IN
    IF f.status \in {"notexist", "unreadable"} THEN [kind |-> "read", file |-> abs]
    ELSE IF f.status = "garbage" THEN [kind |-> "parse", file |-> abs]
    ELSE IF f.schema.TargetNamespace = <<>> THEN [kind |-> "missingNS", file |-> abs]
    ELSE None

\* the state after the document at abs has been registered and merged
registerSchema(s, abs, schema) ==
    LET ns == schema.TargetNamespace
        s1 == [s EXCEPT !.fileToNS = MapPut(@, abs, ns)]
        s2 == [s1 EXCEPT !.nsBundles =
                  MapPut(@, ns, mergeComponents(bundleFor(s1, ns), schema))]
    IN trackImports(s2, ns, schema.Imports)

\* the visited set is never consulted
neverVisited(s, abs) == FALSE

alreadyVisited(s, abs) == abs \in s.visitedFiles

\* an import that names no namespace is not followed either
followsNamedImport(imp) ==
    imp.SchemaLocation # <<>> /\ imp.Namespace # <<>> /\ imp.Namespace \notin AVSNamespaces

\* whether the import loop follows imp
followsImport(imp) ==
    imp.SchemaLocation # <<>> /\ imp.Namespace \notin AVSNamespaces

\* ------------------------------------------------------------------------
\* Codegen per namespace
\* ------------------------------------------------------------------------

\* the import path one entry of b.Imports contributes to deps, or None
depFor(b, ns, all, avsVersionContext) ==
    IF ns = b.TargetNamespace THEN None
    ELSE IF ns \in AVSNamespaces
    THEN LET found == IF b.TargetNamespace \in DOMAIN avsVersionContext
                      THEN avsVersionContext[b.TargetNamespace] ELSE <<>>
             avsVersion == IF found = <<>> THEN <<"l","a","t","e","s","t">> ELSE found
         IN [path |-> <<"d","d","e","x","/","a","v","s","/","v">> \o avsVersion \o <<"/","v">> \o avsVersion \o <<".","p","r","o","t","o">>]
    ELSE IF ns \in DOMAIN all THEN [path |-> all[ns].filePath]
    ELSE None

\* deps after sort.Strings, each passed through toPosixPath
\* the deps the loop over b.Imports collects, for the keys in some order
depsOf(b, keys, all, avsVersionContext) ==
    SelectSeq([i \in 1..Len(keys) |-> depFor(b, keys[i], all, avsVersionContext)],
              LAMBDA d : d # None)

pathsOf(picked) == [i \in 1..Len(picked) |-> picked[i].path]

importLines(deps) == [i \in 1..Len(deps) |-> toPosixPath(deps[i])]

importStatements(b, all, avsVersionContext) ==
    importLines(SortSeq(pathsOf(depsOf(b, sortStrings(b.Imports), all, avsVersionContext)),
                        StrLess))

\* The three emission loops thread one state: the declarations written so
\* far and the `generated` set of names.

\* top-level elements with inline complex types -> message
RECURSIVE emitElements(_, _, _, _)
emitElements(g, elements, all, order) ==
    IF elements = <<>> THEN g
    ELSE LET el   == elements[1]
             name == toProtoMessageName(el.Name)
         IN IF el.ComplexType # None /\ name \notin g.generated
            THEN emitElements(
                    [ decls     |-> Append(g.decls,
                                      generateComplexTypeMessage(el.Name, el.ComplexType,
                                                                 all, order)),
                      generated |-> g.generated \cup {name} ],
                    Tail(elements), all, order)
            ELSE emitElements(g, Tail(elements), all, order)

\* named complex types -> message
RECURSIVE emitComplexTypes(_, _, _, _)
emitComplexTypes(g, complexTypes, all, order) ==
    IF complexTypes = <<>> THEN g
    ELSE LET ct   == complexTypes[1]
             name == toProtoMessageName(ct.Name)
         IN IF ct.Name # <<>> /\ name \notin g.generated
            THEN emitComplexTypes(
                    [ decls     |-> Append(g.decls,
                                      generateComplexTypeMessage(ct.Name, ct, all, order)),
                      generated |-> g.generated \cup {name} ],
                    Tail(complexTypes), all, order)
            ELSE emitComplexTypes(g, Tail(complexTypes), all, order)

\* simple types with enumerations -> enum
RECURSIVE emitSimpleTypes(_, _)
emitSimpleTypes(g, simpleTypes) ==
    IF simpleTypes = <<>> THEN g
    ELSE LET st1 == simpleTypes[1]
             en  == toProtoEnumName(st1.Name)
             skip == \/ st1.Name = <<>>
                     \/ st1.Restriction = None
                     \/ Len(st1.Restriction.Enumerations) = 0
         IN IF ~skip /\ en \notin g.generated
            THEN emitSimpleTypes(
                    [ decls     |-> Append(g.decls, generateEnum(st1)),
                      generated |-> g.generated \cup {en} ],
                    Tail(simpleTypes))
            ELSE emitSimpleTypes(g, Tail(simpleTypes))

\* The unit: its header, its import statements and its declarations, in
\* the order they are written.  The error result is always nil.
generateProtoForBundle(b, packageName, goPackage, all, avsVersionContext, order) ==
    [ package         |-> packageName,
      goPackage       |-> goPackage,
      targetNamespace |-> b.TargetNamespace,
      imports         |-> importStatements(b, all, avsVersionContext),
      decls           |-> emitSimpleTypes(
                            emitComplexTypes(
                              emitElements([decls |-> <<>>, generated |-> {}],
                                           b.Elements, all, order),
                              b.ComplexTypes, all, order),
                            b.SimpleTypes).decls ]

\* every order in which a range loop may visit the keys of a map
MapOrders(m) ==
    LET K == DOMAIN m IN
    { o \in [1..Cardinality(K) -> K] : \A i, j \in 1..Cardinality(K) : o[i] = o[j] => i = j }

\* ------------------------------------------------------------------------
\* The schema files convertSpec is run on
\* ------------------------------------------------------------------------

NS_ERN  == <<"h","t","t","p",":","/","/","d","d","e","x",".","n","e","t","/","x","m","l","/","e","r","n","/","4","3","2">>
NS_MEAD == <<"h","t","t","p",":","/","/","d","d","e","x",".","n","e","t","/","x","m","l","/","m","e","a","d","/","1","1">>

EntryFile == <<"/","w","/","x","s","d","/","e","r","n","v","4","3","2","/","r","e","l","e","a","s","e","-","n","o","t","i","f","i","c","a","t","i","o","n",".","x","s","d">>
FileB     == <<"/","w","/","x","s","d","/","e","r","n","v","4","3","2","/","b",".","x","s","d">>
FileC     == <<"/","w","/","x","s","d","/","c",".","x","s","d">>

element(name, type, maxOccurs) ==
    [Name |-> name, Type |-> type, MinOccurs |-> <<>>, MaxOccurs |-> maxOccurs,
     ComplexType |-> None]

sequenceType(name, elements) ==
    [Name |-> name, Sequence |-> [Elements |-> elements], Choice |-> None,
     SimpleContent |-> None, Attributes |-> <<>>]

schemaFile(ns, elements, complexTypes, simpleTypes, imports, includes) ==
    [ status |-> "schema",
      schema |-> [ TargetNamespace |-> ns,
                   Elements        |-> elements,
                   ComplexTypes    |-> complexTypes,
                   SimpleTypes     |-> simpleTypes,
                   Imports         |-> imports,
                   Includes        |-> includes ] ]

\* a top-level element with an inline complex type
inlineElement(name, complexType) ==
    [Name |-> name, Type |-> <<>>, MinOccurs |-> <<>>, MaxOccurs |-> <<>>,
     ComplexType |-> complexType]

import(ns, loc) == [Namespace |-> ns, SchemaLocation |-> loc]

\* what each file declares: one type per file, so that a declaration in a
\* bundle tells which file it came from
EntryTypes == << sequenceType(<<"F","o","o">>, << element(<<"X">>, <<"m","e","a","d",":","P","a","r","t","y">>, <<>>),
                                         element(<<"Y">>, <<"d","d","e","x",":","I","d">>, <<"u","n","b","o","u","n","d","e","d">>) >>) >>
BTypes     == << sequenceType(<<"H","e","a","d","e","r">>, << element(<<"I","d">>, <<"x","s",":","s","t","r","i","n","g">>, <<>>) >>) >>
BElements  == << inlineElement(<<"N","o","t","e">>, sequenceType(<<>>, << element(<<"T","e","x","t">>, <<"x","s",":","s","t","r","i","n","g">>, <<>>) >>)) >>
BEnums     == << [Name |-> <<"S","t","a","t","u","s">>,
                  Restriction |-> [Base |-> <<"x","s",":","s","t","r","i","n","g">>, Enumerations |-> << <<"O","K">> >>]] >>
CTypes     == << sequenceType(<<"P","a","r","t","y">>, << element(<<"N","a","m","e">>, <<"x","s",":","s","t","r","i","n","g">>, <<>>) >>) >>

EntryContents ==
    { [status |-> "notexist"], [status |-> "garbage"],
      schemaFile(<<>>, <<>>, EntryTypes, <<>>, <<>>, <<>>) }
    \cup
    { schemaFile(NS_ERN, <<>>, EntryTypes, <<>>, imps, incs) :
        imps \in { <<>>,
                   << import(NS_MEAD, <<".",".","/","c",".","x","s","d">>) >>,
                   << import(NS_MEAD, <<>>), import(NS_ERN, <<"b",".","x","s","d">>) >>,
                   << import(<<"h","t","t","p",":","/","/","d","d","e","x",".","n","e","t","/","x","m","l","/","a","v","s","/","a","v","s">>, <<".",".","/","a","v","s","_","2","0","2","0","0","1","0","8",".","x","s","d">>),
                      import(NS_MEAD, <<".",".","/","c",".","x","s","d">>) >> },
        incs \in { <<>>,
                   << <<"b",".","x","s","d">> >>,
                   << <<>>, <<".","/","b",".","x","s","d">>, <<"b",".","x","s","d">> >> } }

BContents ==
    { [status |-> "unreadable"], [status |-> "garbage"],
      schemaFile(<<>>, BElements, BTypes, BEnums, <<>>, <<>>) }
    \cup
    { schemaFile(ns, BElements, BTypes, BEnums, imps, incs) :
        ns   \in { NS_ERN, NS_MEAD },
        imps \in { <<>>,
                   << import(NS_MEAD, <<".",".","/","c",".","x","s","d">>) >>,
                   << import(<<"h","t","t","p",":","/","/","d","d","e","x",".","n","e","t","/","x","m","l","/","a","l","l","o","w","e","d","-","v","a","l","u","e","-","s","e","t","s">>, <<>>) >> },
        incs \in { <<>>, << <<"r","e","l","e","a","s","e","-","n","o","t","i","f","i","c","a","t","i","o","n",".","x","s","d">> >> } }

CContents ==
    { [status |-> "notexist"], schemaFile(<<>>, <<>>, CTypes, <<>>, <<>>, <<>>) }
    \cup
    { schemaFile(ns, <<>>, CTypes, <<>>, imps, incs) :
        ns   \in { NS_MEAD, NS_ERN },
        imps \in { <<>>, << import(NS_ERN, <<"e","r","n","v","4","3","2","/","r","e","l","e","a","s","e","-","n","o","t","i","f","i","c","a","t","i","o","n",".","x","s","d">>) >> },
        incs \in { <<>>, << <<"e","r","n","v","4","3","2","/","b",".","x","s","d">> >> } }

FilePaths == { EntryFile, FileB, FileC }

FileSystems ==
    { [p \in FilePaths |-> IF p = EntryFile THEN e ELSE IF p = FileB THEN b ELSE c] :
        e \in EntryContents, b \in BContents, c \in CContents }

\* the recursion of loadSchemaGraph is cut off at this depth; with the
\* visited set it never gets there
MaxDepth == 5

\* ------------------------------------------------------------------------
\* convertSpec and loadSchemaGraph as a state machine
\* ------------------------------------------------------------------------

\* the entry path convertSpec settles on (os.Stat decides the fallback)
\* the hyphenated file name, or the underscored one when it does not exist
entryOrFallback(schemasDir, first, sp, files) ==
    IF readFile(files, filepathAbs(first)).status = "notexist"
    THEN filepathJoin(<< schemasDir, ReplaceAll(sp.mainFile, <<"-">>, <<"_">>) >>)
    ELSE first

entryIn(schemasDir, sp, files) ==
    entryOrFallback(schemasDir, filepathJoin(<< schemasDir, sp.mainFile >>), sp, files)

entryPathOf(sp, files) ==
    IF sp.name = <<"a","v","s">>
    THEN filepathJoin(<< <<"x","s","d">>, sp.mainFile >>)
    ELSE entryIn(filepathJoin(<< <<"x","s","d">>, sp.name \o <<"v">> \o sp.version >>),
                 sp, files)

outRoot == filepathJoin(<< <<"p","r","o","t","o">> >>)

Top == stack[Len(stack)]
Callers == SubSeq(stack, 1, Len(stack) - 1)
TopSchema == fs[Top.abs].schema

\* a call of loadSchemaGraph(st, path): the frame before its first statement
callFrame(path) == [path |-> path, abs |-> filepathAbs(path), phase |-> "enter", i |-> 0]

\* convertSpec up to the call of loadSchemaGraph on the entry file
Start ==
    /\ pc = "start"
    /\ pc' = "load"
    /\ st' = newLoadState
    /\ stack' = << callFrame(entryPathOf(curSpec, fs)) >>
    /\ UNCHANGED <<fs, curSpec, err, namespaces, pkgs, idx, written, reads, run, firstRun,
                   emitIn, emitOut>>

\* the path was visited before: return nil
LoadVisited ==
    /\ pc = "load" /\ stack # <<>> /\ Top.phase = "enter"
    /\ alreadyVisited(st, Top.abs)
    /\ stack' = Callers
    /\ UNCHANGED <<fs, curSpec, st, pc, err, namespaces, pkgs, idx, written, reads, run,
                   firstRun, emitIn, emitOut>>

\* the file cannot be read, does not parse or has no targetNamespace: the
\* error is returned through every caller and convertSpec wraps it
LoadFail ==
    /\ pc = "load" /\ stack # <<>> /\ Top.phase = "enter"
    /\ ~alreadyVisited(st, Top.abs)
    /\ checkSchema(fs, Top.abs) # None
    /\ st' = [st EXCEPT !.visitedFiles = @ \cup {Top.abs}]
    /\ reads' = MapPut(reads, Top.abs,
                       IF Top.abs \in DOMAIN reads THEN reads[Top.abs] + 1 ELSE 1)
    /\ stack' = <<>>
    /\ err' = [op |-> "load graph"] @@ checkSchema(fs, Top.abs)
    /\ pc' = "done"
    /\ UNCHANGED <<fs, curSpec, namespaces, pkgs, idx, written, run, firstRun, emitIn, emitOut>>

\* the file is read, registered under its namespace and merged
LoadRegister ==
    /\ pc = "load" /\ stack # <<>> /\ Top.phase = "enter"
    /\ ~alreadyVisited(st, Top.abs)
    /\ checkSchema(fs, Top.abs) = None
    /\ st' = registerSchema([st EXCEPT !.visitedFiles = @ \cup {Top.abs}],
                            Top.abs, fs[Top.abs].schema)
    /\ reads' = MapPut(reads, Top.abs,
                       IF Top.abs \in DOMAIN reads THEN reads[Top.abs] + 1 ELSE 1)
    /\ stack' = Append(Callers, [Top EXCEPT !.phase = "includes", !.i = 1])
    /\ UNCHANGED <<fs, curSpec, pc, err, namespaces, pkgs, idx, written, run, firstRun,
                   emitIn, emitOut>>

\* one iteration of the include loop: skip an empty location or recurse
LoadInclude ==
    /\ pc = "load" /\ stack # <<>> /\ Top.phase = "includes"
    /\ Top.i <= Len(TopSchema.Includes)
    /\ Len(stack) < MaxDepth
    /\ LET loc  == TopSchema.Includes[Top.i]
           here == [Top EXCEPT !.i = @ + 1]
       IN stack' = IF loc = <<>>
                   THEN Append(Callers, here)
                   ELSE Append(Callers, here)
                        \o << callFrame(filepathJoin(<< filepathDir(Top.abs), loc >>)) >>
    /\ UNCHANGED <<fs, curSpec, st, pc, err, namespaces, pkgs, idx, written, reads, run,
                   firstRun, emitIn, emitOut>>

LoadIncludesDone ==
    /\ pc = "load" /\ stack # <<>> /\ Top.phase = "includes"
    /\ Top.i > Len(TopSchema.Includes)
    /\ stack' = Append(Callers, [Top EXCEPT !.phase = "imports", !.i = 1])
    /\ UNCHANGED <<fs, curSpec, st, pc, err, namespaces, pkgs, idx, written, reads, run,
                   firstRun, emitIn, emitOut>>

\* one iteration of the import loop
LoadImport ==
    /\ pc = "load" /\ stack # <<>> /\ Top.phase = "imports"
    /\ Top.i <= Len(TopSchema.Imports)
    /\ Len(stack) < MaxDepth
    /\ LET imp  == TopSchema.Imports[Top.i]
           here == [Top EXCEPT !.i = @ + 1]
       IN stack' = IF followsImport(imp)
                   THEN Append(Callers, here)
                        \o << callFrame(filepathJoin(<< filepathDir(Top.abs),
                                                        imp.SchemaLocation >>)) >>
                   ELSE Append(Callers, here)
    /\ UNCHANGED <<fs, curSpec, st, pc, err, namespaces, pkgs, idx, written, reads, run,
                   firstRun, emitIn, emitOut>>

\* both loops are done: return nil
LoadReturn ==
    /\ pc = "load" /\ stack # <<>> /\ Top.phase = "imports"
    /\ Top.i > Len(TopSchema.Imports)
    /\ stack' = Callers
    /\ UNCHANGED <<fs, curSpec, st, pc, err, namespaces, pkgs, idx, written, reads, run,
                   firstRun, emitIn, emitOut>>

\* os.MkdirAll(outRoot) fails
MkdirRootFail ==
    /\ pc = "load" /\ stack = <<>>
    /\ err' = [op |-> "", kind |-> "mkdir", file |-> outRoot]
    /\ pc' = "done"
    /\ UNCHANGED <<fs, curSpec, st, stack, namespaces, pkgs, idx, written, reads, run,
                   firstRun, emitIn, emitOut>>

\* the namespaces are sorted and the package and file of each are computed
Prepare ==
    /\ pc = "load" /\ stack = <<>>
    /\ namespaces' = sortStrings(DOMAIN st.nsBundles)
    /\ pkgs' = [ns \in DOMAIN st.nsBundles |-> protoPkgInfo(ns, st.nsBundles[ns], curSpec)]
    /\ idx' = 1
    /\ pc' = "emit"
    /\ UNCHANGED <<fs, curSpec, st, stack, err, written, reads, run, firstRun, emitIn, emitOut>>

CurNS == namespaces[idx]
CurDir == filepathJoin(<< outRoot, filepathDir(pkgs[CurNS].filePath) >>)
CurOutFile == filepathJoin(<< outRoot, pkgs[CurNS].filePath >>)
CurContent(order) ==
    generateProtoForBundle(st.nsBundles[CurNS], pkgs[CurNS].pkgName, pkgs[CurNS].goPackage,
                           pkgs, st.avsVersionContext, order)

\* os.MkdirAll(dir) fails for the current bundle
EmitMkdirFail ==
    /\ pc = "emit" /\ idx <= Len(namespaces)
    /\ err' = [op |-> "", kind |-> "mkdir", file |-> CurDir]
    /\ pc' = "done"
    /\ UNCHANGED <<fs, curSpec, st, stack, namespaces, pkgs, idx, written, reads, run,
                   firstRun, emitIn, emitOut>>

\* the content is built, os.WriteFile cannot open the file
EmitWriteFail ==
    /\ pc = "emit" /\ idx <= Len(namespaces)
    /\ err' = [op |-> "write", kind |-> "write", file |-> CurOutFile]
    /\ pc' = "done"
    /\ UNCHANGED <<fs, curSpec, st, stack, namespaces, pkgs, idx, written, reads, run,
                   firstRun, emitIn, emitOut>>

\* os.WriteFile creates or truncates the file and fails before all of the
\* content is on disk
EmitWritePartial ==
    /\ pc = "emit" /\ idx <= Len(namespaces)
    /\ written' = Append(written, [path |-> CurOutFile, ns |-> CurNS, content |-> None])
    /\ err' = [op |-> "write", kind |-> "write", file |-> CurOutFile]
    /\ pc' = "done"
    /\ UNCHANGED <<fs, curSpec, st, stack, namespaces, pkgs, idx, reads, run, firstRun,
                   emitIn, emitOut>>

\* one iteration of the emission loop with no I/O error
EmitBundle ==
    /\ pc = "emit" /\ idx <= Len(namespaces)
    /\ \E order \in MapOrders(pkgs) :
          written' = Append(written, [path |-> CurOutFile, ns |-> CurNS,
                                      content |-> CurContent(order)])
    /\ idx' = idx + 1
    /\ UNCHANGED <<fs, curSpec, st, stack, pc, err, namespaces, pkgs, reads, run, firstRun,
                   emitIn, emitOut>>

\* return nil
Finish ==
    /\ pc = "emit" /\ idx > Len(namespaces)
    /\ pc' = "done"
    /\ UNCHANGED <<fs, curSpec, st, stack, err, namespaces, pkgs, idx, written, reads, run,
                   firstRun, emitIn, emitOut>>

\* the tool is started again on the same, unchanged input files
Rerun ==
    /\ pc = "done" /\ run = 1
    /\ firstRun' = [written |-> written, err |-> err]
    /\ run' = 2
    /\ pc' = "start"
    /\ st' = newLoadState
    /\ stack' = <<>>
    /\ err' = None
    /\ namespaces' = <<>>
    /\ pkgs' = <<>>
    /\ idx' = 0
    /\ written' = <<>>
    /\ reads' = <<>>
    /\ UNCHANGED <<fs, curSpec, emitIn, emitOut>>

ConvertedSpecs == { specs[4] }

InitConvert ==
    /\ fs \in FileSystems
    /\ curSpec \in ConvertedSpecs
    /\ st = newLoadState
    /\ stack = <<>>
    /\ pc = "start"
    /\ err = None
    /\ namespaces = <<>>
    /\ pkgs = <<>>
    /\ idx = 0
    /\ written = <<>>
    /\ reads = <<>>
    /\ run = 1
    /\ firstRun = None
    /\ emitIn = None
    /\ emitOut = None

LoadNext ==
    \/ LoadVisited \/ LoadFail \/ LoadRegister
    \/ LoadInclude \/ LoadIncludesDone \/ LoadImport \/ LoadReturn

NextConvert ==
    \/ Start \/ LoadNext
    \/ MkdirRootFail \/ Prepare
    \/ EmitMkdirFail \/ EmitWriteFail \/ EmitWritePartial \/ EmitBundle \/ Finish

SpecConvert == InitConvert /\ [][NextConvert]_vars

\* ------------------------------------------------------------------------
\* The declaration emitter on its own
\* ------------------------------------------------------------------------

\* the fields a complex type handed to the emitter has at most, the
\* synthetic value field not counted
MaxFields == 4

\* the literals an enumeration handed to the emitter has at most
MaxEnums == 3

\* elements as they stand in a sequence or a choice
ElementPool ==
    { element(<<"A">>, <<"x","s",":","i","n","t">>, <<"u","n","b","o","u","n","d","e","d">>),
      element(<<"A","_","1">>, <<"e","r","n",":","P","a","r","t","y">>, <<"1">>) }

\* attributes of a complex type or of a simpleContent extension
AttrPool ==
    { [Name |-> <<"v","a","l","u","e">>,   Type |-> <<>>,           Use |-> <<>>],
      [Name |-> <<"v","a","l","u","e","_","1">>, Type |-> <<"x","s",":","b","o","o","l","e","a","n">>, Use |-> <<"r","e","q","u","i","r","e","d">>] }

\* a sequence with n elements; without elements it is absent or empty
SequencesOf(n) ==
    IF n = 0 THEN { None, [Elements |-> <<>>] }
    ELSE { [Elements |-> e] : e \in [1..n -> ElementPool] }

\* a choice with n member elements
ChoicesOf(n) ==
    IF n = 0 THEN { None, [MinOccurs |-> <<>>, MaxOccurs |-> <<>>, Elements |-> <<>>] }
    ELSE { [MinOccurs |-> <<"0">>, MaxOccurs |-> mo, Elements |-> e] :
              mo \in { <<>>, <<"u","n","b","o","u","n","d","e","d">> }, e \in [1..n -> ElementPool] }

\* a simpleContent whose extension has n attributes
SimpleContentsOf(n) ==
    IF n = 0
    THEN { None, [Extension |-> None],
           [Extension |-> [Base |-> <<"x","s",":","s","t","r","i","n","g">>, Attributes |-> <<>>]] }
    ELSE { [Extension |-> [Base |-> <<"x","s",":","s","t","r","i","n","g">>, Attributes |-> a]] :
              a \in [1..n -> AttrPool] }

ComplexTypesOf(ns, nc, nx, na) ==
    { [Name |-> <<"T">>, Sequence |-> s, Choice |-> c, SimpleContent |-> x, Attributes |-> a] :
        s \in SequencesOf(ns), c \in ChoicesOf(nc), x \in SimpleContentsOf(nx),
        a \in [1..na -> AttrPool] }

ComplexTypeInputs ==
    UNION { ComplexTypesOf(n[1], n[2], n[3], n[4]) :
              n \in { t \in (0..MaxFields) \X (0..MaxFields) \X (0..MaxFields) \X (0..MaxFields) :
                        t[1] + t[2] + t[3] + t[4] <= MaxFields } }

LiteralPool == { <<"O","K">>, <<"o","k">>, <<"F","A","I","L","E","D","-","R","E","T","R","Y">>, <<"U","n","s","p","e","c","i","f","i","e","d">> }

\* generateEnum is only called on a simple type with a restriction that
\* has at least one enumeration
SimpleTypeInputs ==
    { [Name |-> n, Restriction |-> [Base |-> <<"x","s",":","s","t","r","i","n","g">>, Enumerations |-> e]] :
        n \in { <<"S","t","a","t","u","s">>, <<"R","e","l","e","a","s","e","T","y","p","e","_","1">> },
        e \in UNION { [1..k -> LiteralPool] : k \in 1..MaxEnums } }

\* the packages the emitter is handed: those of an ern unit importing mead
EmitPkgs ==
    [ ns \in { NS_ERN, NS_MEAD } |-> protoPkgInfo(ns, bundleFor(newLoadState, ns), specs[4]) ]

\* the type of the README: simpleContent extending xs:string with the
\* required attribute IsDefault of type xs:boolean
SomeType ==
    [ Name |-> <<"S","o","m","e","T","y","p","e">>, Sequence |-> None, Choice |-> None,
      SimpleContent |-> [Extension |-> [Base |-> <<"x","s",":","s","t","r","i","n","g">>,
                                        Attributes |-> << [Name |-> <<"I","s","D","e","f","a","u","l","t">>,
                                                           Type |-> <<"x","s",":","b","o","o","l","e","a","n">>,
                                                           Use  |-> <<"r","e","q","u","i","r","e","d">>] >>]],
      Attributes |-> <<>> ]

\* types with one sequence element and one attribute, in every combination
\* of minOccurs, maxOccurs and use
CardinalityInputs ==
    { [ Name |-> <<"T">>,
        Sequence |-> [Elements |-> << [Name |-> <<"U","R","L">>, Type |-> <<"x","s",":","s","t","r","i","n","g">>,
                                       MinOccurs |-> lo, MaxOccurs |-> hi,
                                       ComplexType |-> None] >>],
        Choice |-> None, SimpleContent |-> None,
        Attributes |-> << [Name |-> <<"L","a","n","g","u","a","g","e","C","o","d","e">>, Type |-> <<>>, Use |-> use] >> ] :
        lo  \in { <<>>, <<"0">>, <<"1">> },
        hi  \in { <<>>, <<"0">>, <<"1">>, <<"2">>, <<"u","n","b","o","u","n","d","e","d">> },
        use \in { <<>>, <<"r","e","q","u","i","r","e","d">>, <<"o","p","t","i","o","n","a","l">> } }

EmitMessage ==
    /\ pc = "emitter" /\ emitOut = None
    /\ emitIn.kind = "complexType"
    /\ \E order \in MapOrders(EmitPkgs) :
          emitOut' = generateComplexTypeMessage(emitIn.type.Name, emitIn.type, EmitPkgs, order)
    /\ UNCHANGED <<fs, curSpec, st, stack, pc, err, namespaces, pkgs, idx, written, reads, run,
                   firstRun, emitIn>>

EmitEnum ==
    /\ pc = "emitter" /\ emitOut = None
    /\ emitIn.kind = "simpleType"
    /\ emitOut' = generateEnum(emitIn.type)
    /\ UNCHANGED <<fs, curSpec, st, stack, pc, err, namespaces, pkgs, idx, written, reads, run,
                   firstRun, emitIn>>

InitEmit ==
    /\ fs = <<>>
    /\ curSpec = specs[4]
    /\ st = newLoadState
    /\ stack = <<>>
    /\ pc = "emitter"
    /\ err = None
    /\ namespaces = <<>>
    /\ pkgs = <<>>
    /\ idx = 0
    /\ written = <<>>
    /\ reads = <<>>
    /\ run = 1
    /\ firstRun = None
    /\ emitIn \in { [kind |-> "complexType", type |-> t] :
                        t \in ComplexTypeInputs \cup CardinalityInputs \cup {SomeType} }
                  \cup { [kind |-> "simpleType", type |-> t] : t \in SimpleTypeInputs }
    /\ emitOut = None

NextEmit == EmitMessage \/ EmitEnum

SpecEmit == InitEmit /\ [][NextEmit]_vars

\* ------------------------------------------------------------------------
\* Properties of the declaration emitter
\* ------------------------------------------------------------------------

EmittedMessage == emitOut # None /\ emitOut.kind = "message"
EmittedEnum    == emitOut # None /\ emitOut.kind = "enum"

HasExtension(ct) == ct.SimpleContent # None /\ ct.SimpleContent.Extension # None

\* what the fields of a message come from, section by section in the order
\* the claim gives: the xml annotation each field carries and whether it is
\* a choice member
SourceTags(ct) ==
    (IF ct.Sequence # None
     THEN [i \in 1..Len(ct.Sequence.Elements) |->
              [xml |-> ct.Sequence.Elements[i].Name, oneof |-> FALSE]]
     ELSE <<>>)
    \o
    (IF ct.Choice # None
     THEN [i \in 1..Len(ct.Choice.Elements) |->
              [xml |-> ct.Choice.Elements[i].Name, oneof |-> TRUE]]
     ELSE <<>>)
    \o
    (IF HasExtension(ct)
     THEN << [xml |-> <<",","c","h","a","r","d","a","t","a">>, oneof |-> FALSE] >>
          \o [i \in 1..Len(ct.SimpleContent.Extension.Attributes) |->
                [xml |-> ct.SimpleContent.Extension.Attributes[i].Name \o <<",","a","t","t","r">>,
                 oneof |-> FALSE]]
     ELSE <<>>)
    \o
    [i \in 1..Len(ct.Attributes) |->
        [xml |-> ct.Attributes[i].Name \o <<",","a","t","t","r">>, oneof |-> FALSE]]

\* C3: a message emitted with N fields numbers them exactly 1..N, in
\* emission order: the sequence elements in document order, then the choice
\* members, then the synthetic value field, then the attributes of the
\* simple-content extension, then the complex type's own attributes.
C3_FieldNumbersInEmissionOrder ==
    EmittedMessage =>
        /\ Len(emitOut.fields) = Len(SourceTags(emitIn.type))
        /\ \A i \in 1..Len(emitOut.fields) :
              /\ emitOut.fields[i].num = i
              /\ emitOut.fields[i].xml = SourceTags(emitIn.type)[i].xml
              /\ emitOut.fields[i].oneof = SourceTags(emitIn.type)[i].oneof

\* a message was emitted for a type that has all five sections
C3_Witness ==
    /\ EmittedMessage
    /\ emitIn.type.Sequence # None /\ Len(emitIn.type.Sequence.Elements) > 0
    /\ emitIn.type.Choice # None /\ Len(emitIn.type.Choice.Elements) > 0
    /\ HasExtension(emitIn.type)
    /\ Len(emitIn.type.SimpleContent.Extension.Attributes) > 0
    /\ Len(emitIn.type.Attributes) > 0
    /\ Len(emitOut.fields) = 5

HasSuffix(s, t) == Len(t) <= Len(s) /\ SubSeq(s, Len(s) - Len(t) + 1, Len(s)) = t

\* C4: the first member of every emitted enum is the sentinel
\* <PREFIX>_UNSPECIFIED with value 0, and no member derived from a literal
\* has the sentinel's name.
C4_SentinelNameIsUnique ==
    EmittedEnum =>
        /\ emitOut.members[1].value = 0
        /\ HasSuffix(emitOut.members[1].name, <<"_","U","N","S","P","E","C","I","F","I","E","D">>)
        /\ \A i \in 2..Len(emitOut.members) :
              emitOut.members[i].name # emitOut.members[1].name

C8_FieldNamesAreDistinct ==
    EmittedMessage =>
        \A i, j \in 1..Len(emitOut.fields) :
            emitOut.fields[i].name = emitOut.fields[j].name => i = j

\* the repeated run is checked on the file systems in which b.xsd and
\* c.xsd import nothing
TwiceFileSystems ==
    { f \in FileSystems :
        /\ f[FileB].status \in {"unreadable", "schema"}
        /\ f[FileB].status = "schema" => f[FileB].schema.Imports = <<>>
        /\ f[FileC].status = "schema" =>
              f[FileC].schema.Imports = <<>> /\ f[FileC].schema.Includes = <<>> }

InitTwice == InitConvert /\ fs \in TwiceFileSystems

SpecTwice == InitTwice /\ [][NextConvert \/ Rerun]_vars

\* ------------------------------------------------------------------------
\* Properties of the loader and the driver
\* ------------------------------------------------------------------------

\* how often x stands in the list
Occurrences(list, x) == Cardinality({ i \in 1..Len(list) : list[i] = x })

\* every declaration of the document registered from abs stands exactly
\* once in the bundle of its namespace
MergedOnce(abs) ==
    LET schema == fs[abs].schema
        b      == st.nsBundles[st.fileToNS[abs]]
    IN /\ \A i \in 1..Len(schema.Elements) :
            Occurrences(b.Elements, schema.Elements[i]) = 1
       /\ \A i \in 1..Len(schema.ComplexTypes) :
            Occurrences(b.ComplexTypes, schema.ComplexTypes[i]) = 1
       /\ \A i \in 1..Len(schema.SimpleTypes) :
            Occurrences(b.SimpleTypes, schema.SimpleTypes[i]) = 1

LoadedOnce ==
    /\ \A p \in DOMAIN reads : reads[p] <= 1
    /\ \A abs \in DOMAIN st.fileToNS : MergedOnce(abs)
    /\ st.visitedFiles = DOMAIN reads
    /\ Len(stack) < MaxDepth

\* The steps loadSchemaGraph has left at most, a natural number: for a
\* document not visited yet its registration, two steps for each of its
\* includes and imports (the iteration and the return of the call it makes)
\* and the ends of its two loops; for an active call what is left of that.
DocumentWork(abs) ==
    IF fs[abs].status = "schema"
    THEN 2 * (Len(fs[abs].schema.Includes) + Len(fs[abs].schema.Imports)) + 3
    ELSE 0

FrameWork(frame) ==
    IF frame.phase = "enter" THEN 1
    ELSE IF frame.phase = "includes"
    THEN 2 * (Len(fs[frame.abs].schema.Includes) - frame.i + 1)
         + 2 * Len(fs[frame.abs].schema.Imports) + 2
    ELSE 2 * (Len(fs[frame.abs].schema.Imports) - frame.i + 1) + 1

RECURSIVE SumOfSet(_, _)
SumOfSet(W(_), S) ==
    IF S = {} THEN 0
    ELSE LET x == CHOOSE y \in S : TRUE IN W(x) + SumOfSet(W, S \ {x})

WorkLeft(visited, frames) ==
    SumOfSet(DocumentWork, DOMAIN fs \ visited)
    + SumOfSet(LAMBDA i : FrameWork(frames[i]), DOMAIN frames)

\* C1: for schema files whose includes and imports may form cycles,
\* loadSchemaGraph terminates (every step of it lowers the number of steps
\* left, and it is never cut off), reads each absolute path at most once
\* and appends the elements, complex types and simple types of each loaded
\* file to the bundle of its namespace exactly once.
C1_CycleSafeLoad ==
    /\ []LoadedOnce
    /\ [][(pc = "load" /\ stack # <<>>) =>
            /\ WorkLeft(st.visitedFiles', stack') < WorkLeft(st.visitedFiles, stack)
            /\ WorkLeft(st.visitedFiles', stack') >= 0]_vars

\* a run came to its end on two files that include each other, both loaded
C1_Witness ==
    /\ pc = "done" /\ err = None
    /\ fs[EntryFile].status = "schema" /\ fs[FileB].status = "schema"
    /\ fs[EntryFile].schema.Includes # <<>>
    /\ fs[FileB].schema.Includes # <<>>
    /\ { EntryFile, FileB } \subseteq DOMAIN st.fileToNS
    /\ reads[EntryFile] = 1 /\ reads[FileB] = 1

\* C2: two runs of convertSpec for the same spec on identical input files
\* write the same files with the same content.
C2_RepeatedRunWritesTheSame ==
    (run = 2 /\ pc = "done" /\ err = None /\ firstRun.err = None) =>
        written = firstRun.written

LoadFailed == pc = "done" /\ err # None /\ err.op = "load graph"

\* the file at abs cannot be read, is no schema document or has an empty
\* targetNamespace
Unloadable(abs) ==
    \/ abs \notin DOMAIN fs
    \/ fs[abs].status # "schema"
    \/ fs[abs].schema.TargetNamespace = <<>>

\* C9: when a reachable file cannot be read, does not parse or has an empty
\* targetNamespace, convertSpec returns an error naming that file and no
\* output file has been written.
C9_LoadFailureWritesNothing ==
    /\ (\E f \in st.visitedFiles : Unloadable(f)) => LoadFailed
    /\ LoadFailed =>
          /\ Unloadable(err.file)
          /\ err.file \in st.visitedFiles
          /\ err.kind \in {"read", "parse", "missingNS"}
          /\ written = <<>>

\* the load failed on a file reached from the entry file
C9_Witness ==
    /\ LoadFailed
    /\ err.file = FileB
    /\ EntryFile \in DOMAIN st.fileToNS
    /\ written = <<>>

\* C10 as claimed: no output file is written before content has been
\* emitted for every namespace bundle, and a failure while emitting or
\* writing a bundle leaves no file written.
C10_NothingWrittenBeforeAllEmitted ==
    /\ written # <<>> => idx > Len(namespaces)
    /\ (pc = "done" /\ err # None) => written = <<>>

\* C10 as amended: no output file is written before the whole schema graph
\* is loaded and the package and path of every bundle are computed; the
\* bundles are then emitted and written one at a time in sorted namespace
\* order, so a failure at one bundle comes after the output of every earlier
\* bundle has been written in full and before any write for a later bundle.
C10_WrittenBundleByBundleInOrder ==
    /\ written # <<>> =>
          /\ pc \in {"emit", "done"} /\ stack = <<>>
          /\ DOMAIN pkgs = DOMAIN st.nsBundles
    /\ Len(written) <= Len(namespaces)
    /\ \A i \in 1..Len(written) :
          /\ written[i].ns = namespaces[i]
          /\ written[i].path = filepathJoin(<< outRoot, pkgs[written[i].ns].filePath >>)
          /\ \A j \in 1..Len(written) : i < j => StrLess(written[i].ns, written[j].ns)
    /\ pc = "emit" =>
          /\ Len(written) = idx - 1
          /\ \A i \in 1..Len(written) : written[i].content # None
    /\ (pc = "done" /\ written # <<>>) =>
          /\ \A i \in 1..(Len(written) - 1) : written[i].content # None
          /\ err = None => /\ Len(written) = Len(namespaces)
                           /\ written[Len(written)].content # None
          /\ err # None => Len(written) \in {idx - 1, idx}

\* the second bundle failed after the file of the first was written
C10_Witness ==
    /\ pc = "done" /\ err # None
    /\ idx = 2
    /\ Len(written) >= 1
    /\ written[1].content # None

\* ------------------------------------------------------------------------
\* A unit folded from the entry document and a document it includes
\* ------------------------------------------------------------------------

\* the declarations one document of a unit has at most
MaxDecls == 2

markedType(name, mark) ==
    sequenceType(name, << element(mark, <<"x","s",":","s","t","r","i","n","g">>, <<>>) >>)

markedEnum(name, mark) ==
    [Name |-> name, Restriction |-> [Base |-> <<"x","s",":","s","t","r","i","n","g">>, Enumerations |-> << mark >>]]

\* what the entry document may declare: every declaration is marked X
PrimaryPool ==
    << [kind |-> "complexType", decl |-> markedType(<<"F","o","o">>, <<"X">>)],
       [kind |-> "element",     decl |-> inlineElement(<<"F","o","o">>, markedType(<<>>, <<"X">>))],
       [kind |-> "simpleType",  decl |-> markedEnum(<<"F","o","o">>, <<"X">>)],
       [kind |-> "complexType", decl |-> markedType(<<"A","B">>, <<"X">>)] >>

\* what the included document may declare: every declaration is marked Y
AuxiliaryPool ==
    << [kind |-> "complexType", decl |-> markedType(<<"F","o","o">>, <<"Y">>)],
       [kind |-> "element",     decl |-> inlineElement(<<"F","o","o">>, markedType(<<>>, <<"Y">>))],
       [kind |-> "simpleType",  decl |-> markedEnum(<<"F","o","o">>, <<"Y">>)],
       [kind |-> "simpleType",  decl |-> markedEnum(<<"A","_","B">>, <<"Y">>)] >>

\* the declarations of one kind among those picked from the pool
declsOf(pool, picked, kind) ==
    SelectSeq([i \in 1..Len(pool) |->
                  IF i \in picked /\ pool[i].kind = kind THEN pool[i].decl ELSE None],
              LAMBDA d : d # None)

Picks(pool) == { I \in SUBSET (1..Len(pool)) : Cardinality(I) <= MaxDecls }

\* the entry document includes b.xsd and imports c.xsd
PrimaryContents ==
    { schemaFile(NS_ERN,
                 declsOf(PrimaryPool, I, "element"),
                 declsOf(PrimaryPool, I, "complexType"),
                 declsOf(PrimaryPool, I, "simpleType"),
                 << import(NS_MEAD, <<".",".","/","c",".","x","s","d">>) >>,
                 << <<"b",".","x","s","d">> >>) : I \in Picks(PrimaryPool) }

\* b.xsd has the namespace of the entry document and includes it back
AuxiliaryContents ==
    { [status |-> "unreadable"] }
    \cup
    { schemaFile(NS_ERN,
                 declsOf(AuxiliaryPool, I, "element"),
                 declsOf(AuxiliaryPool, I, "complexType"),
                 declsOf(AuxiliaryPool, I, "simpleType"),
                 <<>>,
                 << <<"r","e","l","e","a","s","e","-","n","o","t","i","f","i","c","a","t","i","o","n",".","x","s","d">> >>) : I \in Picks(AuxiliaryPool) }

UnitFileSystems ==
    { [p \in FilePaths |->
          IF p = EntryFile THEN e
          ELSE IF p = FileB THEN b
          ELSE schemaFile(NS_MEAD, <<>>, CTypes, <<>>, <<>>, <<>>)] :
        e \in PrimaryContents, b \in AuxiliaryContents }

InitUnit ==
    /\ fs \in UnitFileSystems
    /\ curSpec \in ConvertedSpecs
    /\ st = newLoadState
    /\ stack = <<>>
    /\ pc = "start"
    /\ err = None
    /\ namespaces = <<>>
    /\ pkgs = <<>>
    /\ idx = 0
    /\ written = <<>>
    /\ reads = <<>>
    /\ run = 1
    /\ firstRun = None
    /\ emitIn = None
    /\ emitOut = None

SpecUnit == InitUnit /\ [][NextConvert]_vars

\* ------------------------------------------------------------------------
\* Properties of a unit
\* ------------------------------------------------------------------------

\* the names a document gives to declarations the emitter looks at
DeclaredNames(schema) ==
    { schema.Elements[i].Name :
        i \in { j \in 1..Len(schema.Elements) : schema.Elements[j].ComplexType # None } }
    \cup { schema.ComplexTypes[i].Name : i \in 1..Len(schema.ComplexTypes) }
    \cup { schema.SimpleTypes[i].Name :
        i \in { j \in 1..Len(schema.SimpleTypes) :
                  /\ schema.SimpleTypes[j].Restriction # None
                  /\ Len(schema.SimpleTypes[j].Restriction.Enumerations) > 0 } }

\* the message has the fields of the complex type, the enum the members of
\* the simple type
ShowsType(decl, ct) ==
    /\ decl.kind = "message"
    /\ ct.Sequence # None
    /\ Len(decl.fields) = Len(ct.Sequence.Elements)
    /\ \A i \in 1..Len(decl.fields) : decl.fields[i].xml = ct.Sequence.Elements[i].Name

ShowsEnum(decl, simpleType) ==
    /\ decl.kind = "enum"
    /\ Len(decl.members) = Len(simpleType.Restriction.Enumerations) + 1
    /\ \A i \in 1..Len(simpleType.Restriction.Enumerations) :
          HasSuffix(decl.members[i + 1].name,
                    <<"_">> \o toProtoEnumValue(simpleType.Restriction.Enumerations[i]))

\* decl shows one of the definitions the document gives to name
ShowsDefinitionOf(decl, schema, name) ==
    \/ \E i \in 1..Len(schema.Elements) :
          /\ schema.Elements[i].Name = name
          /\ schema.Elements[i].ComplexType # None
          /\ ShowsType(decl, schema.Elements[i].ComplexType)
    \/ \E i \in 1..Len(schema.ComplexTypes) :
          /\ schema.ComplexTypes[i].Name = name
          /\ ShowsType(decl, schema.ComplexTypes[i])
    \/ \E i \in 1..Len(schema.SimpleTypes) :
          /\ schema.SimpleTypes[i].Name = name
          /\ schema.SimpleTypes[i].Restriction # None
          /\ ShowsEnum(decl, schema.SimpleTypes[i])

\* the units written in full for the namespace of the entry document
EntryUnits ==
    { written[i].content :
        i \in { j \in 1..Len(written) :
                  written[j].content # None /\ written[j].ns = NS_ERN } }

BothFolded == { EntryFile, FileB } \subseteq DOMAIN st.fileToNS

\* C5: when the entry schema and an auxiliary document folded into the same
\* unit both define a declaration named Foo (a named complex type, a
\* top-level element with an inline type or an enumeration simple type), the
\* unit has exactly one declaration Foo, and it shows the definition of the
\* entry schema.
C5_PrimaryDefinitionWins ==
    BothFolded =>
        \A unit \in EntryUnits :
          \A name \in DeclaredNames(fs[EntryFile].schema)
                        \cap DeclaredNames(fs[FileB].schema) :
            /\ Cardinality({ i \in 1..Len(unit.decls) :
                               unit.decls[i].name = toProtoMessageName(name) }) = 1
            /\ \A i \in 1..Len(unit.decls) :
                  unit.decls[i].name = toProtoMessageName(name) =>
                      ShowsDefinitionOf(unit.decls[i], fs[EntryFile].schema, name)

\* C7: in every unit the names of the emitted messages and enums are
\* pairwise distinct.
C7_DeclarationNamesAreDistinct ==
    \A k \in 1..Len(written) :
        written[k].content # None =>
            \A i, j \in 1..Len(written[k].content.decls) :
                written[k].content.decls[i].name = written[k].content.decls[j].name
                    => i = j

\* ------------------------------------------------------------------------
\* main: validateSchemas and convertSpec for every spec of the list
\* ------------------------------------------------------------------------

\* path lies in the directory dir or below it
isUnder(dir, path) ==
    /\ Len(path) > Len(dir) + 1
    /\ SubSeq(path, 1, Len(dir)) = dir
    /\ path[Len(dir) + 1] = "/"

\* os.Stat says the file does not exist
statNotExist(files, path) ==
    readFile(files, filepathAbs(path)).status = "notexist"

\* os.Stat says the directory does not exist: no file lies in it
dirNotExist(files, dir) ==
    \A p \in DOMAIN files :
        isUnder(filepathAbs(dir), p) => files[p].status = "notexist"

validateEntryIn(schemasDir, sp, files) ==
    IF dirNotExist(files, schemasDir)
    THEN [kind |-> "validate", file |-> schemasDir]
    ELSE IF /\ statNotExist(files, filepathJoin(<< schemasDir, sp.mainFile >>))
            /\ statNotExist(files, filepathJoin(<< schemasDir,
                                    ReplaceAll(sp.mainFile, <<"-">>, <<"_">>) >>))
    THEN [kind |-> "validate", file |-> filepathJoin(<< schemasDir, sp.mainFile >>)]
    ELSE None

\* the error validateSchemas returns, or None
validateSchemas(sp, files) ==
    IF sp.name = <<"a","v","s">>
    THEN IF statNotExist(files, filepathJoin(<< <<"x","s","d">>, sp.mainFile >>))
         THEN [kind |-> "validate", file |-> filepathJoin(<< <<"x","s","d">>, sp.mainFile >>)]
         ELSE None
    ELSE validateEntryIn(filepathJoin(<< <<"x","s","d">>, sp.name \o <<"v">> \o sp.version >>),
                         sp, files)

\* validateSchemas fails: log.Fatalf ends the process
MainValidateFail ==
    /\ pc = "start"
    /\ validateSchemas(curSpec, fs) # None
    /\ err' = [op |-> "validate"] @@ validateSchemas(curSpec, fs)
    /\ pc' = "done"
    /\ UNCHANGED <<fs, curSpec, st, stack, namespaces, pkgs, idx, written, reads, run,
                   firstRun, emitIn, emitOut>>

\* validateSchemas passes and convertSpec is called
MainStart == validateSchemas(curSpec, fs) = None /\ Start

\* convertSpec returned nil: the loop goes on to the next spec.  written
\* goes on as the list of all writes of the process, firstRun keeps the
\* writes of the specs completed so far, run counts the specs.
MainNextSpec ==
    /\ pc = "done" /\ err = None
    /\ run < Len(specs)
    /\ curSpec' = specs[run + 1]
    /\ run' = run + 1
    /\ firstRun' = [written |-> written, err |-> None]
    /\ pc' = "start"
    /\ st' = newLoadState
    /\ stack' = <<>>
    /\ namespaces' = <<>>
    /\ pkgs' = <<>>
    /\ idx' = 0
    /\ reads' = <<>>
    /\ UNCHANGED <<fs, err, written, emitIn, emitOut>>

NS_AVS     == <<"h","t","t","p",":","/","/","d","d","e","x",".","n","e","t","/","x","m","l","/","a","v","s","/","a","v","s">>
NS_AVSLONG == <<"h","t","t","p",":","/","/","d","d","e","x",".","n","e","t","/","x","m","l","/","a","l","l","o","w","e","d","-","v","a","l","u","e","-","s","e","t","s">>
NS_ERN43   == <<"h","t","t","p",":","/","/","d","d","e","x",".","n","e","t","/","x","m","l","/","e","r","n","/","4","3">>
NS_ERN383  == <<"h","t","t","p",":","/","/","d","d","e","x",".","n","e","t","/","x","m","l","/","e","r","n","/","3","8","3">>
NS_PIE     == <<"h","t","t","p",":","/","/","d","d","e","x",".","n","e","t","/","x","m","l","/","p","i","e","/","1","0">>

AvsLatestFile == <<"/","w","/","x","s","d","/","a","l","l","o","w","e","d","-","v","a","l","u","e","-","s","e","t","s",".","x","s","d">>
Avs2020File   == <<"/","w","/","x","s","d","/","a","v","s","_","2","0","2","0","0","1","0","8",".","x","s","d">>
Ern43File     == <<"/","w","/","x","s","d","/","e","r","n","v","4","3","/","r","e","l","e","a","s","e","-","n","o","t","i","f","i","c","a","t","i","o","n",".","x","s","d">>
MeadFile      == <<"/","w","/","x","s","d","/","m","e","a","d","v","1","1","/","m","e","d","i","a","-","e","n","r","i","c","h","m","e","n","t","-","a","n","d","-","d","e","s","c","r","i","p","t","i","o","n",".","x","s","d">>
PieFile       == <<"/","w","/","x","s","d","/","p","i","e","v","1","0","/","p","a","r","t","y","-","i","d","e","n","t","i","f","i","c","a","t","i","o","n","-","a","n","d","-","e","n","r","i","c","h","m","e","n","t",".","x","s","d">>
Ern383File    == <<"/","w","/","x","s","d","/","e","r","n","v","3","8","3","/","r","e","l","e","a","s","e","_","n","o","t","i","f","i","c","a","t","i","o","n",".","x","s","d">>

\* the mead entry file is absent, no schema document, a document of its
\* own, or a document that imports the ern 432 entry file
MeadContents ==
    { [status |-> "notexist"], [status |-> "garbage"],
      schemaFile(NS_MEAD, <<>>, CTypes, <<>>, <<>>, <<>>),
      schemaFile(NS_MEAD, <<>>, CTypes, <<>>,
                 << import(NS_ERN, <<".",".","/","e","r","n","v","4","3","2","/","r","e","l","e","a","s","e","-","n","o","t","i","f","i","c","a","t","i","o","n",".","x","s","d">>) >>, <<>>) }

PieContents ==
    { [status |-> "notexist"], schemaFile(NS_PIE, <<>>, BTypes, <<>>, <<>>, <<>>) }

MainFilePaths ==
    { AvsLatestFile, Avs2020File, Ern43File, EntryFile, MeadFile, PieFile, Ern383File }

MainFileSystems ==
    { [p \in MainFilePaths |->
          IF p = AvsLatestFile THEN schemaFile(NS_AVSLONG, <<>>, <<>>, BEnums, <<>>, <<>>)
          ELSE IF p = Avs2020File THEN schemaFile(NS_AVS, <<>>, <<>>, BEnums, <<>>, <<>>)
          ELSE IF p = Ern43File
          THEN schemaFile(NS_ERN43, BElements, BTypes, <<>>,
                          << import(NS_AVS, <<".",".","/","a","v","s","_","2","0","2","0","0","1","0","8",".","x","s","d">>) >>,
                          << <<"r","e","l","e","a","s","e","-","n","o","t","i","f","i","c","a","t","i","o","n",".","x","s","d">> >>)
          ELSE IF p = EntryFile THEN schemaFile(NS_ERN, <<>>, EntryTypes, <<>>, <<>>, <<>>)
          ELSE IF p = MeadFile THEN m
          ELSE IF p = PieFile THEN q
          ELSE schemaFile(NS_ERN383, <<>>, BTypes, BEnums, <<>>, <<>>)] :
        m \in MeadContents, q \in PieContents }

InitMain ==
    /\ fs \in MainFileSystems
    /\ curSpec = specs[1]
    /\ st = newLoadState
    /\ stack = <<>>
    /\ pc = "start"
    /\ err = None
    /\ namespaces = <<>>
    /\ pkgs = <<>>
    /\ idx = 0
    /\ written = <<>>
    /\ reads = <<>>
    /\ run = 1
    /\ firstRun = None
    /\ emitIn = None
    /\ emitOut = None

NextMain ==
    \/ MainValidateFail \/ MainStart \/ LoadNext
    \/ MkdirRootFail \/ Prepare
    \/ EmitMkdirFail \/ EmitWriteFail \/ EmitWritePartial \/ EmitBundle \/ Finish
    \/ MainNextSpec

SpecMain == InitMain /\ [][NextMain]_vars

\* what the file at path holds after the writes of log: the content of the
\* last write to it
FileAt(log, path) ==
    LET ws == { i \in 1..Len(log) : log[i].path = path } IN
    IF ws = {} THEN [status |-> "notexist"]
    ELSE log[CHOOSE i \in ws : \A j \in ws : j <= i].content

\* C11: when the conversion of a spec fails, every output file written by
\* the specs completed before it holds what those specs left in it.
C11_CompletedOutputIsKept ==
    (pc = "done" /\ err # None /\ firstRun # None) =>
        \A i \in 1..Len(firstRun.written) :
            FileAt(written, firstRun.written[i].path)
                = FileAt(firstRun.written, firstRun.written[i].path)

\* ------------------------------------------------------------------------
\* convertSpec on an entry file that includes b.xsd and imports c.xsd, the
\* namespaces of the two and the prefix of a type reference drawn from pools
\* ------------------------------------------------------------------------

NS_ERNEXT == <<"h","t","t","p",":","/","/","d","d","e","x",".","n","e","t","/","x","m","l","/","e","r","n","/","4","3","2","/","e","x","t">>

NamespacePool == { NS_ERN, NS_ERNEXT, NS_MEAD, NS_AVS }

\* the prefix the entry document binds to the namespace it imports
PrefixPool == { <<"m","e","a","d">>, <<"n","s","2">>, <<"e","r","n">>, <<"d","d","e","x">> }

\* the entry document: type Foo with a field X of type <prefix>:Party
GraphEntry(prefix, importedNS) ==
    schemaFile(NS_ERN, <<>>,
               << sequenceType(<<"F","o","o">>,
                               << element(<<"X">>, prefix \o <<":","P","a","r","t","y">>, <<>>) >>) >>,
               <<>>,
               << import(importedNS, <<".",".","/","c",".","x","s","d">>) >>,
               << <<"b",".","x","s","d">> >>)

GraphFileSystems ==
    { [p \in FilePaths |->
          IF p = EntryFile THEN GraphEntry(prefix, NS_MEAD)
          ELSE IF p = FileB
          THEN schemaFile(nsB, BElements, BTypes, BEnums, <<>>,
                          << <<"r","e","l","e","a","s","e","-","n","o","t","i","f","i","c","a","t","i","o","n",".","x","s","d">> >>)
          ELSE [status |-> "unreadable"]] :
        prefix \in PrefixPool, nsB \in NamespacePool }
    \cup
    { [p \in FilePaths |->
          IF p = EntryFile THEN GraphEntry(prefix, nsC)
          ELSE IF p = FileB
          THEN schemaFile(nsB, BElements, BTypes, BEnums, <<>>,
                          << <<"r","e","l","e","a","s","e","-","n","o","t","i","f","i","c","a","t","i","o","n",".","x","s","d">> >>)
          ELSE schemaFile(nsC, <<>>, CTypes, <<>>, <<>>, <<>>)] :
        prefix \in PrefixPool, nsB \in NamespacePool, nsC \in NamespacePool }

InitGraph ==
    /\ fs \in GraphFileSystems
    /\ curSpec \in ConvertedSpecs
    /\ st = newLoadState
    /\ stack = <<>>
    /\ pc = "start"
    /\ err = None
    /\ namespaces = <<>>
    /\ pkgs = <<>>
    /\ idx = 0
    /\ written = <<>>
    /\ reads = <<>>
    /\ run = 1
    /\ firstRun = None
    /\ emitIn = None
    /\ emitOut = None

SpecGraph == InitGraph /\ [][NextConvert]_vars

WrittenPaths == { written[i].path : i \in 1..Len(written) }

\* C12: distinct namespace bundles of a run are mapped to distinct unit
\* names and distinct output file paths, and the number of files written
\* equals the number of bundles.
C12_BundlesHaveTheirOwnFiles ==
    /\ \A a, b \in DOMAIN pkgs :
          a # b => /\ pkgs[a].pkgName # pkgs[b].pkgName
                   /\ pkgs[a].filePath # pkgs[b].filePath
    /\ (pc = "done" /\ err = None) =>
          Cardinality(WrittenPaths) = Cardinality(DOMAIN st.nsBundles)

\* the case of C13: the entry file (NS1) includes b.xsd of its own
\* namespace and imports c.xsd of another namespace NS2; the run is over
TwoNamespaces ==
    /\ pc = "done" /\ err = None
    /\ fs[FileB].status = "schema" /\ fs[FileB].schema.TargetNamespace = NS_ERN
    /\ fs[FileC].status = "schema" /\ fs[FileC].schema.TargetNamespace # NS_ERN

NS2 == fs[FileC].schema.TargetNamespace

\* the prefix of the type of field X of Foo in the entry document
XPrefix ==
    CHOOSE p \in PrefixPool :
        fs[EntryFile].schema.ComplexTypes[1].Sequence.Elements[1].Type = p \o <<":","P","a","r","t","y">>

\* the type field X of message Foo has in the unit
XTypeIn(unit) ==
    LET foo == CHOOSE i \in 1..Len(unit.decls) : unit.decls[i].name = <<"F","o","o">>
    IN unit.decls[foo].fields[1].type

\* the run wrote one unit for each of the two namespaces
WroteTwoUnits ==
    /\ Len(written) = 2
    /\ { written[i].ns : i \in 1..Len(written) } = { NS_ERN, NS2 }
    /\ \A i \in 1..Len(written) : written[i].content # None

\* the unit imports the file of NS2 and has a declaration for every
\* declaration of the two files of its namespace
ImportsAndHoldsBoth(unit) ==
    /\ \E i \in 1..Len(unit.imports) : unit.imports[i] = toPosixPath(pkgs[NS2].filePath)
    /\ \A name \in DeclaredNames(fs[EntryFile].schema) \cup DeclaredNames(fs[FileB].schema) :
          \E i \in 1..Len(unit.decls) : unit.decls[i].name = toProtoMessageName(name)

\* the namespaces of the run whose lower-cased text contains the prefix
Matching(prefix) == { ns \in DOMAIN pkgs : Contains(ToLower(ns), prefix) }

Literals == emitIn.type.Restriction.Enumerations

\* the prefix of the enum, read off its sentinel
SentinelPrefix ==
    SubSeq(emitOut.members[1].name, 1,
           Len(emitOut.members[1].name) - Len(<<"_","U","N","S","P","E","C","I","F","I","E","D">>))

\* the member name the i-th literal stands for
LiteralName(i) == SentinelPrefix \o <<"_">> \o toProtoEnumValue(Literals[i])

\* the literals whose name no earlier literal of the enum has
FirstLiterals ==
    { i \in 1..Len(Literals) : \A j \in 1..(i - 1) : LiteralName(j) # LiteralName(i) }

\* the place of the i-th literal among the first ones
RankOf(i) == Cardinality({ j \in FirstLiterals : j <= i })

\* C14: the members derived from literals have the values 1, 2, ..., k in
\* source order, each named <ENUM_PREFIX>_<sanitized literal>; a literal
\* whose name an earlier literal has is skipped and uses up no value.
\* Status with "OK", "FAILED-RETRY" gives STATUS_UNSPECIFIED = 0,
\* STATUS_OK = 1, STATUS_FAILED_RETRY = 2.
C14_EnumValuesInSourceOrder ==
    EmittedEnum =>
        /\ Len(emitOut.members) = 1 + Cardinality(FirstLiterals)
        /\ \A i \in FirstLiterals :
              emitOut.members[1 + RankOf(i)] = [name |-> LiteralName(i), value |-> RankOf(i)]
        /\ (emitIn.type.Name = <<"S","t","a","t","u","s">> /\ Literals = << <<"O","K">>, <<"F","A","I","L","E","D","-","R","E","T","R","Y">> >>) =>
              emitOut.members = << [name |-> <<"S","T","A","T","U","S","_","U","N","S","P","E","C","I","F","I","E","D">>,  value |-> 0],
                                   [name |-> <<"S","T","A","T","U","S","_","O","K">>,           value |-> 1],
                                   [name |-> <<"S","T","A","T","U","S","_","F","A","I","L","E","D","_","R","E","T","R","Y">>, value |-> 2] >>

\* an enum was emitted for literals the second of which repeats the name of
\* the first: the third literal has the value 2
C14_Witness ==
    /\ EmittedEnum
    /\ emitIn.type.Name = <<"S","t","a","t","u","s">>
    /\ Literals = << <<"O","K">>, <<"o","k">>, <<"F","A","I","L","E","D","-","R","E","T","R","Y">> >>
    /\ Len(emitOut.members) = 3
    /\ emitOut.members[3] = [name |-> <<"S","T","A","T","U","S","_","F","A","I","L","E","D","_","R","E","T","R","Y">>, value |-> 2]

\* what each field of a message is bound to, section by section: a
\* sequence element, a choice member, the text content or an attribute,
\* with the XSD declaration it comes from
BoundTo(kind, decls) == [i \in 1..Len(decls) |-> [kind |-> kind, decl |-> decls[i]]]

Bindings(ct) ==
    (IF ct.Sequence # None THEN BoundTo("element", ct.Sequence.Elements) ELSE <<>>)
    \o (IF ct.Choice # None THEN BoundTo("element", ct.Choice.Elements) ELSE <<>>)
    \o (IF HasExtension(ct)
        THEN << [kind |-> "chardata", decl |-> None] >>
             \o BoundTo("attr", ct.SimpleContent.Extension.Attributes)
        ELSE <<>>)
    \o BoundTo("attr", ct.Attributes)

\* the annotation the claim gives to a binding
Annotation(b) ==
    IF b.kind = "chardata" THEN <<",","c","h","a","r","d","a","t","a">>
    ELSE IF b.kind = "attr" THEN b.decl.Name \o <<",","a","t","t","r">>
    ELSE b.decl.Name

\* C15: every emitted field carries the XML annotation with the original
\* XSD name and its binding kind (Name for elements, Name,attr for
\* attributes, ,chardata for the value field), also when its field name got
\* a collision suffix.  SomeType, simpleContent extending xs:string with the
\* attribute IsDefault of type xs:boolean, has exactly the chardata field
\* value numbered 1 and the bool field is_default numbered 2.
C15_FieldsCarryTheirXmlBinding ==
    EmittedMessage =>
        /\ Len(emitOut.fields) = Len(Bindings(emitIn.type))
        /\ \A i \in 1..Len(emitOut.fields) :
              emitOut.fields[i].xml = Annotation(Bindings(emitIn.type)[i])
        /\ emitIn.type = SomeType =>
              emitOut.fields =
                << [num |-> 1, name |-> <<"v","a","l","u","e">>, type |-> <<"s","t","r","i","n","g">>, repeated |-> FALSE,
                    oneof |-> FALSE, xml |-> <<",","c","h","a","r","d","a","t","a">>],
                   [num |-> 2, name |-> <<"i","s","_","d","e","f","a","u","l","t">>, type |-> <<"b","o","o","l">>, repeated |-> FALSE,
                    oneof |-> FALSE, xml |-> <<"I","s","D","e","f","a","u","l","t",",","a","t","t","r">>] >>

\* a message was emitted whose second attribute has the name of the first
\* and got the suffix _1
C15_Witness ==
    /\ EmittedMessage
    /\ Len(emitIn.type.Attributes) = 2
    /\ emitIn.type.Attributes[1].Name = <<"v","a","l","u","e">>
    /\ emitIn.type.Attributes[2].Name = <<"v","a","l","u","e">>
    /\ Len(emitOut.fields) = 2
    /\ emitOut.fields[2].name = <<"v","a","l","u","e","_","1">>
    /\ emitOut.fields[2].xml = <<"v","a","l","u","e",",","a","t","t","r">>

NS_XS == <<"h","t","t","p",":","/","/","d","d","e","x",".","n","e","t","/","x","m","l","/","x","s","/","1">>

\* the namespace-to-package maps the translator is handed
TypePkgs ==
    { [ ns \in N |-> protoPkgInfo(ns, bundleFor(newLoadState, ns), specs[4]) ] :
        N \in { {}, { NS_ERN }, { NS_ERN, NS_XS }, { NS_ERN, NS_AVS } } }

XsdPrimitives ==
    { <<"s","t","r","i","n","g">>, <<"n","o","r","m","a","l","i","z","e","d","S","t","r","i","n","g">>, <<"t","o","k","e","n">>, <<"a","n","y","U","R","I">>, <<"N","M","T","O","K","E","N">>,
      <<"i","n","t">>, <<"i","n","t","e","g","e","r">>, <<"p","o","s","i","t","i","v","e","I","n","t","e","g","e","r">>, <<"l","o","n","g">>, <<"b","o","o","l","e","a","n">>,
      <<"d","e","c","i","m","a","l">>, <<"f","l","o","a","t">>, <<"d","o","u","b","l","e">>,
      <<"d","a","t","e","T","i","m","e">>, <<"d","a","t","e">>, <<"t","i","m","e">>, <<"d","u","r","a","t","i","o","n">>, <<"g","Y","e","a","r">>,
      <<"b","a","s","e","6","4","B","i","n","a","r","y">> }


\* type names the table does not have
CustomLocals == { <<"P","a","r","t","y">>, <<"p","a","r","t","y","_","I","d">> }

\* the prefixes of the type names, with their colon
TypePrefixes == { <<>>, <<"x","s",":">>, <<"e","r","n",":">>, <<"a","v","s",":">>, <<"m","e","a","d",":">> }

TypeInputs ==
    { prefix \o local :
        prefix \in TypePrefixes,
        local  \in XsdPrimitives \cup CustomLocals \cup { <<"D","d","e","x","_","I","s","o","D","a","t","e">> } }

\* one call of xsdTypeToProto
TranslateType ==
    /\ pc = "translator" /\ emitOut = None
    /\ \E order \in MapOrders(emitIn.allPkgs) :
          emitOut' = [ kind   |-> "type",
                       result |-> xsdTypeToProto(emitIn.type, emitIn.allPkgs, order) ]
    /\ UNCHANGED <<fs, curSpec, st, stack, pc, err, namespaces, pkgs, idx, written, reads, run,
                   firstRun, emitIn>>

InitTypes ==
    /\ fs = <<>>
    /\ curSpec = specs[4]
    /\ st = newLoadState
    /\ stack = <<>>
    /\ pc = "translator"
    /\ err = None
    /\ namespaces = <<>>
    /\ pkgs = <<>>
    /\ idx = 0
    /\ written = <<>>
    /\ reads = <<>>
    /\ run = 1
    /\ firstRun = None
    /\ emitIn \in { [kind |-> "type", type |-> t, allPkgs |-> m] :
                      t \in TypeInputs, m \in TypePkgs }
    /\ emitOut = None

NextTypes == TranslateType

SpecTypes == InitTypes /\ [][NextTypes]_vars

\* the table of the claim
Row(names, target) == [n \in names |-> target]

PrimitiveTable ==
    Row({ <<"s","t","r","i","n","g">>, <<"n","o","r","m","a","l","i","z","e","d","S","t","r","i","n","g">>, <<"t","o","k","e","n">>, <<"a","n","y","U","R","I">>, <<"N","M","T","O","K","E","N">> }, <<"s","t","r","i","n","g">>)
    @@ Row({ <<"i","n","t">>, <<"i","n","t","e","g","e","r">>, <<"p","o","s","i","t","i","v","e","I","n","t","e","g","e","r">> }, <<"i","n","t","3","2">>)
    @@ Row({ <<"l","o","n","g">> }, <<"i","n","t","6","4">>)
    @@ Row({ <<"b","o","o","l","e","a","n">> }, <<"b","o","o","l">>)
    @@ Row({ <<"d","e","c","i","m","a","l">>, <<"f","l","o","a","t">> }, <<"s","t","r","i","n","g">>)
    @@ Row({ <<"d","o","u","b","l","e">> }, <<"d","o","u","b","l","e">>)
    @@ Row({ <<"d","a","t","e","T","i","m","e">>, <<"d","a","t","e">>, <<"t","i","m","e">>, <<"d","u","r","a","t","i","o","n">>, <<"g","Y","e","a","r">> }, <<"s","t","r","i","n","g">>)
    @@ Row({ <<"b","a","s","e","6","4","B","i","n","a","r","y">> }, <<"b","y","t","e","s">>)

\* C16: xsdTypeToProto maps every XSD primitive type name, with the xs
\* prefix or without a prefix, to the target primitive of the table,
\* whatever namespace-to-unit map it is handed.
C16_PrimitivesFollowTheTable ==
    \A local \in DOMAIN PrimitiveTable :
        (emitOut # None /\ emitIn.kind = "type"
            /\ emitIn.type \in { local, <<"x","s",":">> \o local }) =>
                emitOut.result = PrimitiveTable[local]

\* xs:long was translated with a map that has a namespace containing "xs"
C16_Witness ==
    /\ emitOut # None /\ emitIn.kind = "type"
    /\ emitIn.type = <<"x","s",":","l","o","n","g">>
    /\ NS_XS \in DOMAIN emitIn.allPkgs
    /\ emitOut.result = <<"i","n","t","6","4">>

\* ------------------------------------------------------------------------
\* pkg/xmlenum: XMLEnum and encoding/xml on character data
\* ------------------------------------------------------------------------

\* the entity and character references the decoder resolves
References ==
    { [src |-> <<"&","l","t",";">>,  ch |-> "<"], [src |-> <<"&","#","6","0",";">>, ch |-> "<"],
      [src |-> <<"&","g","t",";">>,  ch |-> ">"], [src |-> <<"&","#","6","2",";">>, ch |-> ">"],
      [src |-> <<"&","a","m","p",";">>, ch |-> "&"], [src |-> <<"&","#","3","8",";">>, ch |-> "&"] }

\* the reference c starts with, or None
referenceAt(c) ==
    IF \E r \in References : HasPrefixAt(c, 1, r.src)
    THEN CHOOSE r \in References : HasPrefixAt(c, 1, r.src)
    ELSE None

\* d.DecodeElement(&s, &start) on the content of the element: the text, or
\* None for content that is not character data (a bare & or a <)
RECURSIVE decodeText(_, _)
decodeText(c, text) ==
    IF c = <<>> THEN [s |-> text]
    ELSE IF c[1] = "<" THEN None
    ELSE IF c[1] = "&"
    THEN IF referenceAt(c) = None THEN None
         ELSE decodeText(SubSeq(c, Len(referenceAt(c).src) + 1, Len(c)),
                         Append(text, referenceAt(c).ch))
    ELSE decodeText(Tail(c), Append(text, c[1]))

\* xml.EscapeText, as enc.EncodeElement applies it to a string
RECURSIVE escapeText(_)
escapeText(s) ==
    IF s = <<>> THEN <<>>
    ELSE (IF s[1] = "<" THEN <<"&","l","t",";">>
          ELSE IF s[1] = ">" THEN <<"&","g","t",";">>
          ELSE IF s[1] = "&" THEN <<"&","a","m","p",";">>
          ELSE << s[1] >>) \o escapeText(Tail(s))

\* the placeholder: no string names a constant
parseEnumString(s) == [val |-> 0, ok |-> FALSE]

\* e after e.RawValue = s and the assignment to e.Value
parsedEnum(s, parsed) ==
    [Value |-> IF parsed.ok THEN parsed.val ELSE 0, RawValue |-> s]

\* the upper-cased string is kept as RawValue
unmarshalXMLUpper(e, content) ==
    IF decodeText(content, <<>>) = None
    THEN [e |-> e, err |-> [msg |-> "decode"]]
    ELSE [e   |-> parsedEnum(ToUpper(decodeText(content, <<>>).s),
                             parseEnumString(ToUpper(decodeText(content, <<>>).s))),
          err |-> None]

\* (e *XMLEnum[T]) UnmarshalXML: e afterwards and the error returned
unmarshalXML(e, content) ==
    IF decodeText(content, <<>>) = None
    THEN [e |-> e, err |-> [msg |-> "decode"]]
    ELSE [e   |-> parsedEnum(decodeText(content, <<>>).s,
                             parseEnumString(ToUpper(decodeText(content, <<>>).s))),
          err |-> None]

\* (e XMLEnum[T]) MarshalXML: the content of the element written
marshalXML(e) == escapeText(e.RawValue)

\* the longest text of an element
MaxText == 2

TextAlphabet == { "o", "K", " ", "<", ">", "&" }

Texts == UNION { [1..n -> TextAlphabet] : n \in 0..MaxText }

\* the ways a document may write a character of its text
Writings(ch) ==
    IF ch = ">" THEN { << ch >> } \cup { r.src : r \in { q \in References : q.ch = ch } }
    ELSE IF ch \in { "<", "&" } THEN { r.src : r \in { q \in References : q.ch = ch } }
    ELSE { << ch >> }

RECURSIVE Flatten(_)
Flatten(parts) == IF parts = <<>> THEN <<>> ELSE parts[1] \o Flatten(Tail(parts))

\* the contents a document may have for the text s
ContentsOf(s) ==
    { Flatten(w) : w \in { v \in [1..Len(s) -> UNION { Writings(ch) : ch \in TextAlphabet }] :
                             \A i \in 1..Len(s) : v[i] \in Writings(s[i]) } }

\* the XMLEnum values UnmarshalXML is called on
Receivers ==
    { [Value |-> 0, RawValue |-> <<>>], [Value |-> 3, RawValue |-> <<"O", "l", "d">>] }

XmlInputsOf(s) ==
    { [kind |-> "xml", text |-> [s |-> s], content |-> c, e |-> e] :
        c \in ContentsOf(s), e \in Receivers }

XmlInputs ==
    UNION { XmlInputsOf(s) : s \in Texts }
    \cup
    { [kind |-> "xml", text |-> None, content |-> c,
       e |-> [Value |-> 3, RawValue |-> <<"O", "l", "d">>]] :
        c \in { <<"o", "&", "K">>, <<"<">> } }

UnmarshalXML ==
    /\ pc = "xmlenum" /\ emitOut = None
    /\ emitOut' = [ kind |-> "xmlenum", out |-> None ]
                  @@ unmarshalXML(emitIn.e, emitIn.content)
    /\ UNCHANGED <<fs, curSpec, st, stack, pc, err, namespaces, pkgs, idx, written, reads, run,
                   firstRun, emitIn>>

MarshalXML ==
    /\ pc = "xmlenum" /\ emitOut # None
    /\ emitOut.err = None /\ emitOut.out = None
    /\ emitOut' = [emitOut EXCEPT !.out = [content |-> marshalXML(emitOut.e)]]
    /\ UNCHANGED <<fs, curSpec, st, stack, pc, err, namespaces, pkgs, idx, written, reads, run,
                   firstRun, emitIn>>

InitXmlEnum ==
    /\ fs = <<>>
    /\ curSpec = specs[4]
    /\ st = newLoadState
    /\ stack = <<>>
    /\ pc = "xmlenum"
    /\ err = None
    /\ namespaces = <<>>
    /\ pkgs = <<>>
    /\ idx = 0
    /\ written = <<>>
    /\ reads = <<>>
    /\ run = 1
    /\ firstRun = None
    /\ emitIn \in XmlInputs
    /\ emitOut = None

NextXmlEnum == UnmarshalXML \/ MarshalXML

SpecXmlEnum == InitXmlEnum /\ [][NextXmlEnum]_vars

\* C18: after UnmarshalXML has decoded an element whose text is s,
\* RawValue is s, Value is the zero value when s names no constant, and
\* MarshalXML writes an element whose text is s again, for every s.
C18_RawValueRoundTrips ==
    (emitOut # None /\ emitIn.kind = "xml" /\ emitIn.text # None) =>
        /\ emitOut.err = None
        /\ emitOut.e.RawValue = emitIn.text.s
        /\ emitOut.e.Value = 0
        /\ emitOut.out # None =>
              decodeText(emitOut.out.content, <<>>) = [s |-> emitIn.text.s]

\* the text "o&" written as o&#38; was decoded into an XMLEnum that held
\* a value, and marshalled again
C18_Witness ==
    /\ emitOut # None /\ emitIn.kind = "xml"
    /\ emitIn.text = [s |-> << "o", "&" >>]
    /\ emitIn.content = <<"o","&","#","3","8",";">>
    /\ emitIn.e.Value = 3
    /\ emitOut.e = [Value |-> 0, RawValue |-> << "o", "&" >>]
    /\ emitOut.out = [content |-> <<"o","&","a","m","p",";">>]

\* ------------------------------------------------------------------------
\* convertSpec on an entry file whose import declarations are drawn from a
\* pool: with and without a namespace, with and without a location, of the
\* document's own namespace, of another one, of the AVS namespace
\* ------------------------------------------------------------------------

ImportPool ==
    { import(<<>>, <<".",".","/","c",".","x","s","d">>),
      import(NS_ERN, <<"b",".","x","s","d">>),
      import(NS_ERN, <<>>),
      import(NS_ERN, <<".",".","/","c",".","x","s","d">>),
      import(NS_MEAD, <<".",".","/","c",".","x","s","d">>),
      import(NS_MEAD, <<>>),
      import(NS_AVS, <<".",".","/","c",".","x","s","d">>),
      import(NS_AVS, <<".",".","/","a","v","s","_","2","0","2","0","0","1","0","8",".","x","s","d">>) }

ImportLists ==
    { <<>> } \cup { << i >> : i \in ImportPool } \cup (ImportPool \X ImportPool)

ImportFileSystems ==
    { [p \in FilePaths |->
          IF p = EntryFile THEN schemaFile(NS_ERN, <<>>, EntryTypes, <<>>, imps, incs)
          ELSE IF p = FileB
          THEN schemaFile(nsB, BElements, BTypes, BEnums, impsB,
                          << <<"r","e","l","e","a","s","e","-","n","o","t","i","f","i","c","a","t","i","o","n",".","x","s","d">> >>)
          ELSE c] :
        imps \in ImportLists, incs \in { <<>>, << <<"b",".","x","s","d">> >> },
        nsB \in { NS_ERN, NS_MEAD },
        impsB \in { <<>>, << import(NS_AVSLONG, <<>>) >> },
        c \in { [status |-> "notexist"] }
              \cup { schemaFile(nsC, <<>>, CTypes, <<>>, <<>>, <<>>) :
                       nsC \in { NS_MEAD, NS_ERN, NS_ERNEXT, NS_AVS } } }

InitImports ==
    /\ fs \in ImportFileSystems
    /\ curSpec \in ConvertedSpecs
    /\ st = newLoadState
    /\ stack = <<>>
    /\ pc = "start"
    /\ err = None
    /\ namespaces = <<>>
    /\ pkgs = <<>>
    /\ idx = 0
    /\ written = <<>>
    /\ reads = <<>>
    /\ run = 1
    /\ firstRun = None
    /\ emitIn = None
    /\ emitOut = None

SpecImports == InitImports /\ [][NextConvert]_vars

\* loadSchemaGraph has returned to convertSpec
LoadEnded == (pc = "load" /\ stack = <<>>) \/ pc \in { "emit", "done" }

\* ... and returned nil
LoadCompleted == LoadEnded /\ ~LoadFailed

\* the documents registered by the load
LoadedDocuments == DOMAIN st.fileToNS

\* the file an import or include of the document at abs refers to
ReferredFile(abs, loc) == filepathAbs(filepathJoin(<< filepathDir(abs), loc >>))

Holds(seq, x) == \E i \in 1..Len(seq) : seq[i] = x

\* the document at abs was loaded and its declarations are in the bundle
\* of its own targetNamespace
PlacedInOwnBundle(abs) ==
    /\ abs \in st.visitedFiles
    /\ abs \in LoadedDocuments
    /\ st.fileToNS[abs] = fs[abs].schema.TargetNamespace
    /\ st.fileToNS[abs] \in DOMAIN st.nsBundles
    /\ \A i \in 1..Len(fs[abs].schema.Elements) :
          Holds(st.nsBundles[st.fileToNS[abs]].Elements, fs[abs].schema.Elements[i])
    /\ \A i \in 1..Len(fs[abs].schema.ComplexTypes) :
          Holds(st.nsBundles[st.fileToNS[abs]].ComplexTypes, fs[abs].schema.ComplexTypes[i])
    /\ \A i \in 1..Len(fs[abs].schema.SimpleTypes) :
          Holds(st.nsBundles[st.fileToNS[abs]].SimpleTypes, fs[abs].schema.SimpleTypes[i])

ImportsOf(abs) == { fs[abs].schema.Imports[i] : i \in 1..Len(fs[abs].schema.Imports) }

\* C19 as stated: every import that carries a schema location has its file
\* (resolved against the importing file's directory) loaded and placed in
\* the bundle of the file's own targetNamespace.
C19_EveryLocatedImportIsLoaded ==
    LoadCompleted =>
        \A abs \in LoadedDocuments : \A imp \in ImportsOf(abs) :
            imp.SchemaLocation # <<>> =>
                PlacedInOwnBundle(ReferredFile(abs, imp.SchemaLocation))

\* C19: when loading returns without error, every import that carries a
\* schema location and does not name one of the two AVS namespaces has its
\* file loaded and placed in the bundle of the file's own targetNamespace,
\* whatever namespace the import names.
C19_LocatedImportsOutsideAvsAreLoaded ==
    LoadCompleted =>
        \A abs \in LoadedDocuments : \A imp \in ImportsOf(abs) :
            (imp.SchemaLocation # <<>> /\ imp.Namespace \notin { NS_AVS, NS_AVSLONG }) =>
                PlacedInOwnBundle(ReferredFile(abs, imp.SchemaLocation))

\* the entry document imports ../c.xsd as namespace mead, c.xsd declares
\* the namespace ern/432/ext and its Party type is in the bundle of that
\* namespace
C19_Witness ==
    /\ LoadCompleted
    /\ import(NS_MEAD, <<".",".","/","c",".","x","s","d">>) \in ImportsOf(EntryFile)
    /\ fs[FileC].status = "schema"
    /\ fs[FileC].schema.TargetNamespace = NS_ERNEXT
    /\ FileC \in st.visitedFiles
    /\ NS_ERNEXT \in DOMAIN st.nsBundles
    /\ st.nsBundles[NS_ERNEXT].ComplexTypes = CTypes
    /\ NS_MEAD \notin DOMAIN st.nsBundles

\* the documents merged into the bundle of ns
DocumentsOf(ns) == { abs \in LoadedDocuments : st.fileToNS[abs] = ns }

\* the namespaces named by the imports of the documents of ns
DeclaredImports(ns) == UNION { { imp.Namespace : imp \in ImportsOf(abs) } : abs \in DocumentsOf(ns) }

\* the files one step from the document at abs, imports of the document's
\* own namespace left out
StepsFrom(abs) ==
    IF abs \notin DOMAIN fs \/ fs[abs].status # "schema" THEN {}
    ELSE { ReferredFile(abs, fs[abs].schema.Includes[i]) :
             i \in { j \in 1..Len(fs[abs].schema.Includes) : fs[abs].schema.Includes[j] # <<>> } }
         \cup
         { ReferredFile(abs, imp.SchemaLocation) :
             imp \in { q \in ImportsOf(abs) :
                         /\ q.SchemaLocation # <<>>
                         /\ q.Namespace \notin { NS_AVS, NS_AVSLONG }
                         /\ q.Namespace # fs[abs].schema.TargetNamespace } }

RECURSIVE ClosureOf(_)
ClosureOf(files) ==
    IF UNION { StepsFrom(f) : f \in files } \subseteq files THEN files
    ELSE ClosureOf(files \cup UNION { StepsFrom(f) : f \in files })

\* the files the load visits when imports of the importing document's own
\* namespace are taken out of the documents
VisitedWithoutSelfImports == ClosureOf({ filepathAbs(entryPathOf(curSpec, fs)) })

AvsLocations ==
    { <<>>,
      <<".",".","/","a","v","s","_","2","0","2","0","0","1","0","8",".","x","s","d">>,
      <<".",".","/","a","v","s","_","2","0","2","1","0","5","1","8",".","x","s","d">>,
      <<".",".","/","a","v","s","_","2","0","2","0","0","1","0",".","x","s","d">>,
      <<".",".","/","a","v","s","_","2","0","2","0","x","1","0","8",".","x","s","d">>,
      <<".",".","/","a","l","l","o","w","e","d","-","v","a","l","u","e","-","s","e","t","s",".","x","s","d">>,
      <<".",".","/","a","v","s","_","x","s","d","/","a","v","s","_","2","0","2","0","0","1","0","8",".","x","s","d">> }

AvsImportLists ==
    { <<>> } \cup { << import(ns, loc) >> : ns \in AVSNamespaces, loc \in AvsLocations }

AvsFileSystems ==
    { [p \in FilePaths |->
          IF p = EntryFile THEN schemaFile(NS_ERN, <<>>, EntryTypes, <<>>, imps, incs)
          ELSE IF p = FileB THEN b
          ELSE [status |-> "notexist"]] :
        imps \in AvsImportLists, incs \in { <<>>, << <<"b",".","x","s","d">> >> },
        b \in { [status |-> "unreadable"] }
              \cup { schemaFile(NS_ERN, BElements, BTypes, BEnums, impsB,
                                << <<"r","e","l","e","a","s","e","-","n","o","t","i","f","i","c","a","t","i","o","n",".","x","s","d">> >>) :
                       impsB \in { <<>>,
                                   << import(NS_AVS, <<>>) >>,
                                   << import(NS_AVS, <<".",".","/","a","v","s","_","2","0","2","0","0","1","0","8",".","x","s","d">>) >>,
                                   << import(NS_AVS, <<".",".","/","a","v","s","_","2","0","2","1","0","5","1","8",".","x","s","d">>) >> } } }

InitAvs ==
    /\ fs \in AvsFileSystems
    /\ curSpec \in ConvertedSpecs
    /\ st = newLoadState
    /\ stack = <<>>
    /\ pc = "start"
    /\ err = None
    /\ namespaces = <<>>
    /\ pkgs = <<>>
    /\ idx = 0
    /\ written = <<>>
    /\ reads = <<>>
    /\ run = 1
    /\ firstRun = None
    /\ emitIn = None
    /\ emitOut = None

SpecAvs == InitAvs /\ [][NextConvert]_vars

\* the file name of a schema location: what follows its last slash
FileNameOf(loc) == Split(loc, <<"/">>)[Len(Split(loc, <<"/">>))]

\* the text between the first "avs_" of name and the next dot
TokenAfterAvs(name) == Split(Split(name, <<"a","v","s","_">>)[2], <<".">>)[1]

\* the version the file name of a schema location names: its 8-digit token
\* after "avs_", or latest
VersionNamedBy(loc) ==
    IF loc # <<>> /\ Contains(FileNameOf(loc), <<"a","v","s","_">>)
          /\ Len(TokenAfterAvs(FileNameOf(loc))) = 8
          /\ isDigits(TokenAfterAvs(FileNameOf(loc)))
    THEN TokenAfterAvs(FileNameOf(loc))
    ELSE <<"l","a","t","e","s","t">>

\* the file of the AVS unit of version v
AvsUnitFile(v) == <<"d","d","e","x","/","a","v","s","/","v">> \o v \o <<"/","v">> \o v \o <<".","p","r","o","t","o">>

\* the imports of the AVS namespaces among the imports of the document at abs
AvsImportsOf(abs) == { imp \in ImportsOf(abs) : imp.Namespace \in AVSNamespaces }

\* the entry document is the only loaded document that imports AVS
EntryAloneImportsAvs ==
    /\ AvsImportsOf(EntryFile) # {}
    /\ \A abs \in LoadedDocuments \ { EntryFile } : AvsImportsOf(abs) = {}

\* C21: the unit of a bundle that imports the AVS namespace imports the AVS
\* unit of version V, V the 8-digit token after "avs_" in the file name of
\* the import's schema location, and latest when there is no location or
\* no such token.
C21_AvsImportFollowsTheLocation ==
    (pc = "done" /\ err = None /\ EntryAloneImportsAvs) =>
        \A unit \in EntryUnits : \A imp \in AvsImportsOf(EntryFile) :
            Holds(unit.imports, AvsUnitFile(VersionNamedBy(imp.SchemaLocation)))

\* the files of the AVS units the run of the tool produces: one for each
\* AVS spec of the spec list
ProducedAvsUnitFiles ==
    { packageToPath(namespaceToProtoPackage(NS_AVS, None, specs[i])) :
        i \in { j \in 1..Len(specs) : specs[j].name = <<"a","v","s">> } }

\* C22: an import of an AVS unit written into a unit names the file of an
\* AVS unit the run produces; a version with no such unit falls back to
\* latest.
C22_AvsImportNamesAProducedUnit ==
    \A i \in 1..Len(written) :
        written[i].content # None =>
            \A k \in 1..Len(written[i].content.imports) :
                HasPrefixAt(written[i].content.imports[k], 1, <<"d","d","e","x","/","a","v","s","/">>) =>
                    written[i].content.imports[k] \in ProducedAvsUnitFiles

\* C23: while the documents are loaded, a concrete AVS version recorded for
\* a namespace is not changed by the documents of the namespace loaded
\* after it.
C23_RecordedVersionIsStable ==
    [][ (pc = "load" /\ pc' = "load") =>
          \A ns \in DOMAIN st.avsVersionContext :
              st.avsVersionContext[ns] # <<>> =>
                  /\ ns \in DOMAIN st'.avsVersionContext
                  /\ st'.avsVersionContext[ns] = st.avsVersionContext[ns] ]_vars

\* ------------------------------------------------------------------------
\* The namespace-to-package mapping on its own
\* ------------------------------------------------------------------------

FamilyPool == { <<"e","r","n">>, <<"m","e","a","d">>, <<"p","i","e">>, <<"e","r","n","-","m","a","i","n">> }

DigitsPool == { <<"4","3">>, <<"4","3","2">>, <<"1","1">>, <<"0">> }

\* the namespace http://ddex.net/xml/{family}/{digits}
FamilyNamespace(family, digits) == <<"h","t","t","p",":","/","/","d","d","e","x",".","n","e","t","/","x","m","l","/">> \o family \o <<"/">> \o digits

\* namespaces that do not have that form
OtherNamespaces ==
    { <<"h","t","t","p",":","/","/","d","d","e","x",".","n","e","t","/","x","m","l","/","e","r","n","/","v","4","3","2">>,
      <<"h","t","t","p",":","/","/","d","d","e","x",".","n","e","t","/","x","m","l","/","2","0","1","0","/","e","r","n","-","m","a","i","n","/","3","2">>,
      <<"h","t","t","p",":","/","/","d","d","e","x",".","n","e","t","/","e","r","n","/","4","3","2">>,
      <<"h","t","t","p",":","/","/","e","x","a","m","p","l","e",".","o","r","g","/","s","c","h","e","m","a","s","/","e","r","n">>,
      <<"h","t","t","p","s",":","/","/","s","e","r","v","i","c","e",".","e","x","a","m","p","l","e",".","o","r","g","/","m","y","-","s","c","h","e","m","a","s","/","e","r","n","/","4","3","2">>,
      <<"u","r","n",":","d","d","e","x",":","e","r","n">> }
    \cup AVSNamespaces

MapperInputs ==
    { [kind |-> "ns", ns |-> FamilyNamespace(f, d), form |-> [family |-> f, digits |-> d],
       spec |-> sp] :
        f \in FamilyPool, d \in DigitsPool, sp \in { specs[i] : i \in 1..Len(specs) } }
    \cup
    { [kind |-> "ns", ns |-> ns, form |-> None, spec |-> sp] :
        ns \in OtherNamespaces, sp \in { specs[i] : i \in 1..Len(specs) } }

\* a bundle of another namespace whose only import is ns
importerOf(ns) ==
    [bundleFor(newLoadState, <<"h","t","t","p",":","/","/","d","d","e","x",".","n","e","t","/","x","m","l","/","i","m","p","o","r","t","e","r","/","1">>) EXCEPT !.Imports = { ns }]

\* convertSpec computes the package of one namespace; a unit that imports
\* the namespace computes its import path from the map
MapNamespace ==
    /\ pc = "mapper" /\ emitOut = None
    /\ emitOut' =
          [ kind |-> "unit",
            info |-> protoPkgInfo(emitIn.ns, bundleFor(newLoadState, emitIn.ns), emitIn.spec),
            deps |-> importStatements(
                        importerOf(emitIn.ns),
                        MapPut(<<>>, emitIn.ns,
                               protoPkgInfo(emitIn.ns, bundleFor(newLoadState, emitIn.ns),
                                            emitIn.spec)),
                        <<>>) ]
    /\ UNCHANGED <<fs, curSpec, st, stack, pc, err, namespaces, pkgs, idx, written, reads, run,
                   firstRun, emitIn>>

InitMapper ==
    /\ fs = <<>>
    /\ curSpec = specs[4]
    /\ st = newLoadState
    /\ stack = <<>>
    /\ pc = "mapper"
    /\ err = None
    /\ namespaces = <<>>
    /\ pkgs = <<>>
    /\ idx = 0
    /\ written = <<>>
    /\ reads = <<>>
    /\ run = 1
    /\ firstRun = None
    /\ emitIn \in MapperInputs
    /\ emitOut = None

SpecMapper == InitMapper /\ [][MapNamespace]_vars

Mapped == emitOut # None /\ emitIn.kind = "ns"

\* a non-empty string of characters
IsText(s) == s # <<>> /\ \A i \in 1..Len(s) : s[i] \in STRING

\* a unit name a.b.c: no segment is empty
IsUnitName(pkg) == \A i \in 1..Len(Split(pkg, <<".">>)) : Split(pkg, <<".">>)[i] # <<>>

\* a/b/c/c.proto for the unit name a.b.c
PathForUnit(pkg) ==
    Join(Split(pkg, <<".">>), <<"/">>) \o <<"/">>
        \o Split(pkg, <<".">>)[Len(Split(pkg, <<".">>))] \o <<".","p","r","o","t","o">>

C25_EntryNamespaceIsPinned ==
    (Mapped /\ emitIn.form = None /\ (emitIn.ns \in AVSNamespaces => emitIn.spec.name = <<"a","v","s">>)) =>
        emitOut.info.pkgName
            = <<"d","d","e","x",".">> \o emitIn.spec.name \o <<".","v">> \o emitIn.spec.version

\* ------------------------------------------------------------------------
\* The type translator on type names outside the table
\* ------------------------------------------------------------------------

\* the rendered name of a custom type: first letter upper case, no
\* underscores
RenderedName(local) ==
    IF local = <<"P","a","r","t","y">> THEN <<"P","a","r","t","y">> ELSE <<"P","a","r","t","y","I","d">>

\* the namespaces of the map whose lower-cased text contains the text
Containing(text, allPkgs) == { ns \in DOMAIN allPkgs : Contains(ToLower(ns), text) }

Translated == emitOut # None /\ emitIn.kind = "type"

\* the unprefixed name
LocalCase(local) ==
    (Translated /\ emitIn.type = local) => emitOut.result = RenderedName(local)

\* the name with a prefix that resolves to bundles: one of them qualifies it
QualifiedCase(p, local) ==
    (Translated /\ emitIn.type = p \o <<":">> \o local /\ Containing(p, emitIn.allPkgs) # {}) =>
        \E ns \in Containing(p, emitIn.allPkgs) :
            emitOut.result = emitIn.allPkgs[ns].pkgName \o <<".">> \o RenderedName(local)

\* the name with a prefix that resolves to no bundle
UnresolvedCase(p, local) ==
    (Translated /\ emitIn.type = p \o <<":">> \o local /\ Containing(p, emitIn.allPkgs) = {}) =>
        emitOut.result = RenderedName(local)

\* the name with a prefix that is never looked up
NeverQualifiedCase(p, local) ==
    (Translated /\ emitIn.type = p \o <<":">> \o local) => emitOut.result = RenderedName(local)

XUnresolved == Matching(<<"m","e","a","d">>) = {}

\* the message Foo of the unit
FooIn(unit) ==
    unit.decls[CHOOSE i \in 1..Len(unit.decls) : unit.decls[i].name = <<"F","o","o">>]

\* the declarations the bundle of the entry namespace holds, by name
BundleNames == DeclaredNames(st.nsBundles[NS_ERN])

\* C27: a field whose type resolves neither to a primitive nor to a known
\* unit does not abort generation: the run ends with no error but those of
\* reading, parsing and writing files, the unit is written, field X of Foo
\* is a reference to the local message Party with its number 1, the field
\* after it has the number 2, and the unit has a declaration for every
\* declaration name of the bundle.
C27_UnresolvedTypeIsLocalReference ==
    /\ err # None => err.kind \in { "read", "parse", "missingNS", "mkdir", "write" }
    /\ (pc = "done" /\ err = None /\ NS_ERN \in DOMAIN pkgs) => EntryUnits # {}
    /\ XUnresolved =>
          \A unit \in EntryUnits :
              /\ \E i \in 1..Len(unit.decls) : unit.decls[i].name = <<"F","o","o">>
              /\ Len(FooIn(unit).fields) = 2
              /\ FooIn(unit).fields[1].type = <<"P","a","r","t","y">>
              /\ FooIn(unit).fields[1].num = 1
              /\ FooIn(unit).fields[1].xml = <<"X">>
              /\ FooIn(unit).fields[2].num = 2
              /\ FooIn(unit).fields[2].xml = <<"Y">>
              /\ \A name \in BundleNames :
                    \E i \in 1..Len(unit.decls) :
                        unit.decls[i].name = toProtoMessageName(name)

\* a run without error wrote the unit of the entry namespace, which holds
\* Foo with its unresolved field and the declarations of b.xsd
C27_Witness ==
    /\ pc = "done" /\ err = None
    /\ XUnresolved
    /\ BothFolded
    /\ \E unit \in EntryUnits :
          /\ FooIn(unit).fields[1].type = <<"P","a","r","t","y">>
          /\ \E i \in 1..Len(unit.decls) : unit.decls[i].name = <<"H","e","a","d","e","r">>

\* ------------------------------------------------------------------------
\* Cross-unit references and the imports of a unit
\* ------------------------------------------------------------------------

\* the units written in full
WrittenUnits ==
    { written[i].content : i \in { j \in 1..Len(written) : written[j].content # None } }

\* the field types of the messages of a unit
FieldTypesOf(unit) ==
    UNION { { unit.decls[i].fields[k].type : k \in 1..Len(unit.decls[i].fields) } :
              i \in { j \in 1..Len(unit.decls) : unit.decls[j].kind = "message" } }

IsCrossUnit(type) == Contains(type, <<".">>)

HasPrefix(s, p) == Len(s) >= Len(p) /\ SubSeq(s, 1, Len(p)) = p

\* the namespaces of the run whose unit the type names
UnitsNamedBy(type) == { ns \in DOMAIN pkgs : HasPrefix(type, pkgs[ns].pkgName \o <<".">>) }

Imported(unit, ns) ==
    \E i \in 1..Len(unit.imports) : unit.imports[i] = toPosixPath(pkgs[ns].filePath)

\* C28: in every written unit, a field type of the form <unit>.<Type> names
\* the unit itself or a unit whose file the unit imports.
C28_QualifiedTypesAreImported ==
    \A unit \in WrittenUnits :
        \A type \in FieldTypesOf(unit) :
            IsCrossUnit(type) =>
                \E ns \in UnitsNamedBy(type) :
                    ns = unit.targetNamespace \/ Imported(unit, ns)

\* convertSpec on a chain of imports: the entry document (ern/432) imports
\* c.xsd (mead/11), which imports b.xsd (ern/43); the entry document refers
\* to a type by a prefix
ChainEntry(prefix) ==
    schemaFile(NS_ERN, <<>>,
               << sequenceType(<<"F","o","o">>,
                               << element(<<"X">>, prefix \o <<":","P","a","r","t","y">>, <<>>) >>) >>,
               <<>>,
               << import(NS_MEAD, <<".",".","/","c",".","x","s","d">>) >>,
               <<>>)

ChainFileSystems ==
    { [p \in FilePaths |->
          IF p = EntryFile THEN ChainEntry(prefix)
          ELSE IF p = FileB
          THEN schemaFile(NS_ERN43, BElements, BTypes, BEnums, <<>>, <<>>)
          ELSE schemaFile(NS_MEAD, <<>>, CTypes, <<>>,
                          << import(NS_ERN43, <<"e","r","n","v","4","3","2","/","b",".","x","s","d">>) >>, <<>>)] :
        prefix \in PrefixPool }

\* names of declared types, with and without an underscore
TypeNamePool == { <<"P","a","r","t","y">>, <<"p","a","r","t","y","_","I","d">> }
EnumNamePool == { <<"S","t","a","t","u","s">>, <<"r","e","l","e","a","s","e","_","T","y","p","e">> }

\* the entry document alone: Foo refers to a complex type and to an
\* enumeration simple type the document declares itself, with the prefix
\* of its own namespace or without a prefix
NamedEntry(prefix, typeName, enumName) ==
    schemaFile(NS_ERN, <<>>,
               << sequenceType(<<"F","o","o">>,
                               << element(<<"X">>, prefix \o typeName, <<>>),
                                  element(<<"Y">>, prefix \o enumName, <<>>) >>),
                  sequenceType(typeName, << element(<<"N","a","m","e">>, <<"x","s",":","s","t","r","i","n","g">>, <<>>) >>) >>,
               << [Name |-> enumName,
                   Restriction |-> [Base |-> <<"x","s",":","s","t","r","i","n","g">>, Enumerations |-> << <<"O","K">> >>]] >>,
               <<>>,
               <<>>)

NamedFileSystems ==
    { [p \in FilePaths |->
          IF p = EntryFile THEN NamedEntry(prefix, typeName, enumName)
          ELSE [status |-> "notexist"]] :
        prefix \in { <<>>, <<"e","r","n",":">> }, typeName \in TypeNamePool, enumName \in EnumNamePool }

InitChain ==
    /\ fs \in GraphFileSystems \cup ChainFileSystems \cup NamedFileSystems
    /\ curSpec \in ConvertedSpecs
    /\ st = newLoadState
    /\ stack = <<>>
    /\ pc = "start"
    /\ err = None
    /\ namespaces = <<>>
    /\ pkgs = <<>>
    /\ idx = 0
    /\ written = <<>>
    /\ reads = <<>>
    /\ run = 1
    /\ firstRun = None
    /\ emitIn = None
    /\ emitOut = None

SpecChain == InitChain /\ [][NextConvert]_vars


\* ------------------------------------------------------------------------
\* Declared names and the names references are rendered with
\* ------------------------------------------------------------------------

\* the complex types and enumeration simple types of a bundle, by name
TypeNamesOf(b) ==
    { b.ComplexTypes[i].Name : i \in 1..Len(b.ComplexTypes) }
    \cup { b.SimpleTypes[i].Name :
             i \in { j \in 1..Len(b.SimpleTypes) :
                       /\ b.SimpleTypes[j].Restriction # None
                       /\ Len(b.SimpleTypes[j].Restriction.Enumerations) > 0 } }

DeclNamesOf(unit) == { unit.decls[i].name : i \in 1..Len(unit.decls) }

\* the name after the unit name of a rendered reference
LocalPart(type, ns) ==
    IF HasPrefix(type, pkgs[ns].pkgName \o <<".">>)
    THEN SubSeq(type, Len(pkgs[ns].pkgName) + 2, Len(type))
    ELSE type

\* C29: for every complex type and enumeration simple type T of a bundle,
\* the written unit of the bundle has a declaration under the name that
\* xsdTypeToProto renders for a reference to T, unprefixed or qualified
\* with the unit of the bundle.
C29_ReferencesNameEmittedDeclarations ==
    \A k \in 1..Len(written) :
        written[k].content # None =>
            \A name \in TypeNamesOf(st.nsBundles[written[k].ns]) :
                \A order \in MapOrders(pkgs) :
                    LocalPart(xsdTypeToProto(name, pkgs, order), written[k].ns)
                        \in DeclNamesOf(written[k].content)

\* ------------------------------------------------------------------------
\* ddex-go-gen: downloadSchemas and downloadRecursive
\* ------------------------------------------------------------------------

\* the URL of the entry schema of a spec
mainURL(sp) ==
    <<"h","t","t","p","s",":","/","/","s","e","r","v","i","c","e",".","d","d","e","x",".","n","e","t","/","x","m","l","/">> \o sp.name \o <<"/">> \o sp.version \o <<"/">> \o sp.mainFile

\* strings.LastIndex(s, "/"), 1-based; 0 when s has no slash
LastSlash(s) ==
    LET seps == { i \in 1..Len(s) : s[i] = "/" } IN
    IF seps = {} THEN 0 ELSE CHOOSE i \in seps : \A j \in seps : j <= i

resolveURL(baseURL, relativePath) ==
    IF HasPrefixAt(relativePath, 1, <<".",".","/">>) /\ Contains(relativePath, <<"d","d","e","x",".","n","e","t">>)
    THEN <<"h","t","t","p",":","/","/">> \o SubSeq(relativePath, Index(relativePath, <<"d","d","e","x",".","n","e","t">>),
                               Len(relativePath))
    ELSE baseURL \o <<"/">> \o relativePath

\* the URL downloadRecursive is called with for a schema location found in
\* the file downloaded from urlStr
dependencyURL(urlStr, schemaLoc) ==
    IF HasPrefixAt(schemaLoc, 1, <<"h","t","t","p">>) THEN schemaLoc
    ELSE resolveURL(SubSeq(urlStr, 1, LastSlash(urlStr) - 1), schemaLoc)

\* filepath.Base with every - turned into _
localName(path) == ReplaceAll(SubSeq(path, LastSlash(path) + 1, Len(path)), <<"-">>, <<"_">>)

localPath(sp, urlStr) ==
    <<"t","m","p","/">> \o sp.name \o <<"v">> \o sp.version \o <<"/">> \o localName(urlStr)

\* A downloaded file is the list of its non-empty schemaLocation values, one
\* to a line.  A location with a slash is replaced by its local file name.
fixSchemaLocations(content) ==
    [ i \in 1..Len(content) |->
        IF Contains(content[i], <<"/">>) THEN localName(content[i]) ELSE content[i] ]

\* what http.Get and io.Copy yield for a URL: a failure, or a body with its
\* schema locations; a URL the site does not know yields a page without any
httpGet(site, urlStr) ==
    IF urlStr \in DOMAIN site THEN site[urlStr]
    ELSE [status |-> "page", locations |-> <<>>]

\* the seen map is never consulted
neverSeen(seen, urlStr) == FALSE

\* seen[urlStr]
seenBefore(seen, urlStr) == urlStr \in seen

downloadCall(urlStr) == [url |-> urlStr, phase |-> "enter", i |-> 0, content |-> <<>>]

counted(r, urlStr) == MapPut(r, urlStr, IF urlStr \in DOMAIN r THEN r[urlStr] + 1 ELSE 1)

\* downloadSchemas: a fresh seen map and the call on the main URL
DownloadSchemas ==
    /\ pc = "gen"
    /\ st' = [seen |-> {}]
    /\ stack' = << downloadCall(mainURL(curSpec)) >>
    /\ pc' = "download"
    /\ UNCHANGED <<fs, curSpec, err, namespaces, pkgs, idx, written, reads, run, firstRun,
                   emitIn, emitOut>>

\* the call on top returns r: to downloadSchemas, or to the loop of its
\* caller, which logs a warning for an error and goes on
Returned(r) ==
    IF Callers = <<>>
    THEN /\ stack' = <<>>
         /\ err' = r
         /\ pc' = "done"
         /\ namespaces' = namespaces
    ELSE /\ stack' = Callers
         /\ err' = err
         /\ pc' = pc
         /\ namespaces' = IF r # None
                          THEN Append(namespaces, [dep |-> Top.url, err |-> r])
                          ELSE namespaces

\* if seen[urlStr] { return nil }
DownloadSeen ==
    /\ pc = "download" /\ stack # <<>> /\ Top.phase = "enter"
    /\ seenBefore(st.seen, Top.url)
    /\ Returned(None)
    /\ UNCHANGED <<fs, curSpec, st, pkgs, idx, written, reads, run, firstRun, emitIn, emitOut>>

\* downloadFile fails: return err
DownloadFail ==
    /\ pc = "download" /\ stack # <<>> /\ Top.phase = "enter"
    /\ ~seenBefore(st.seen, Top.url)
    /\ httpGet(fs, Top.url).status = "fail"
    /\ st' = [st EXCEPT !.seen = @ \cup { Top.url }]
    /\ reads' = counted(reads, Top.url)
    /\ Returned([kind |-> "download", url |-> Top.url])
    /\ UNCHANGED <<fs, curSpec, pkgs, idx, written, run, firstRun, emitIn, emitOut>>

\* the file is downloaded, read back and searched for schema locations
DownloadOpen ==
    /\ pc = "download" /\ stack # <<>> /\ Top.phase = "enter"
    /\ ~seenBefore(st.seen, Top.url)
    /\ httpGet(fs, Top.url).status # "fail"
    /\ st' = [st EXCEPT !.seen = @ \cup { Top.url }]
    /\ reads' = counted(reads, Top.url)
    /\ written' = MapPut(written, localPath(curSpec, Top.url), httpGet(fs, Top.url).locations)
    /\ stack' = Callers \o << [ url     |-> Top.url,
                                phase   |-> "loop",
                                i       |-> 1,
                                content |-> httpGet(fs, Top.url).locations ] >>
    /\ UNCHANGED <<fs, curSpec, pc, err, namespaces, pkgs, idx, run, firstRun, emitIn, emitOut>>

\* one iteration of the loop over the schema locations: the recursive call
DownloadDependency ==
    /\ pc = "download" /\ stack # <<>> /\ Top.phase = "loop"
    /\ Top.i <= Len(Top.content)
    /\ Len(stack) < MaxDepth
    /\ stack' = Callers \o << [Top EXCEPT !.i = @ + 1],
                              downloadCall(dependencyURL(Top.url, Top.content[Top.i])) >>
    /\ UNCHANGED <<fs, curSpec, st, pc, err, namespaces, pkgs, idx, written, reads, run,
                   firstRun, emitIn, emitOut>>

\* after the loop: the file is written back with its locations made local
DownloadWrite ==
    /\ pc = "download" /\ stack # <<>> /\ Top.phase = "loop"
    /\ Top.i > Len(Top.content)
    /\ written' = MapPut(written, localPath(curSpec, Top.url), fixSchemaLocations(Top.content))
    /\ Returned(None)
    /\ UNCHANGED <<fs, curSpec, st, pkgs, idx, reads, run, firstRun, emitIn, emitOut>>

\* os.WriteFile fails
DownloadWriteFail ==
    /\ pc = "download" /\ stack # <<>> /\ Top.phase = "loop"
    /\ Top.i > Len(Top.content)
    /\ Returned([kind |-> "write", url |-> Top.url])
    /\ UNCHANGED <<fs, curSpec, st, pkgs, idx, written, reads, run, firstRun, emitIn, emitOut>>

\* the files of the site
UrlB   == <<"h","t","t","p","s",":","/","/","s","e","r","v","i","c","e",".","d","d","e","x",".","n","e","t","/","x","m","l","/","e","r","n","/","4","3","2","/","b",".","x","s","d">>
UrlAvs == <<"h","t","t","p",":","/","/","d","d","e","x",".","n","e","t","/","x","m","l","/","a","v","s","/","a","v","s",".","x","s","d">>

body(locations) == [status |-> "ok", locations |-> locations]

unreachable == [status |-> "fail", locations |-> <<>>]

MainBodies ==
    { unreachable } \cup
    { body(l) : l \in { <<>>,
                        << <<"b",".","x","s","d">> >>,
                        << <<"b",".","x","s","d">>, <<"b",".","x","s","d">> >>,
                        << <<".",".","/",".",".","/",".",".","/",".",".","/","d","d","e","x",".","n","e","t","/","x","m","l","/","a","v","s","/","a","v","s",".","x","s","d">>, <<"b",".","x","s","d">> >>,
                        << <<"h","t","t","p",":","/","/","d","d","e","x",".","n","e","t","/","x","m","l","/","a","v","s","/","a","v","s",".","x","s","d">> >> } }

BBodies ==
    { unreachable } \cup
    { body(l) : l \in { <<>>,
                        << <<"r","e","l","e","a","s","e","-","n","o","t","i","f","i","c","a","t","i","o","n",".","x","s","d">> >>,
                        << <<"b",".","x","s","d">> >>,
                        << <<".",".","/","x",".","x","s","d">>, <<".",".","/",".",".","/",".",".","/",".",".","/","d","d","e","x",".","n","e","t","/","x","m","l","/","a","v","s","/","a","v","s",".","x","s","d">> >> } }

AvsBodies ==
    { unreachable } \cup
    { body(l) : l \in { <<>>,
                        << <<"h","t","t","p","s",":","/","/","s","e","r","v","i","c","e",".","d","d","e","x",".","n","e","t","/","x","m","l","/","e","r","n","/","4","3","2","/","r","e","l","e","a","s","e","-","n","o","t","i","f","i","c","a","t","i","o","n",".","x","s","d">> >> } }

Sites ==
    { [u \in { mainURL(specs[4]), UrlB, UrlAvs } |->
          IF u = UrlB THEN b ELSE IF u = UrlAvs THEN a ELSE m] :
        m \in MainBodies, b \in BBodies, a \in AvsBodies }

InitDownload ==
    /\ fs \in Sites
    /\ curSpec = specs[4]
    /\ st = [seen |-> {}]
    /\ stack = <<>>
    /\ pc = "gen"
    /\ err = None
    /\ namespaces = <<>>
    /\ pkgs = <<>>
    /\ idx = 0
    /\ written = <<>>
    /\ reads = <<>>
    /\ run = 1
    /\ firstRun = None
    /\ emitIn = None
    /\ emitOut = None

NextDownload ==
    \/ DownloadSchemas
    \/ DownloadSeen \/ DownloadFail \/ DownloadOpen
    \/ DownloadDependency \/ DownloadWrite \/ DownloadWriteFail

SpecDownload == InitDownload /\ [][NextDownload]_vars

\* the URLs of the site and those its files refer to
UrlsOf(u) == { dependencyURL(u, fs[u].locations[i]) : i \in 1..Len(fs[u].locations) }

KnownUrls == DOMAIN fs \cup UNION { UrlsOf(u) : u \in DOMAIN fs }

\* The steps downloadRecursive has left at most: for a URL not seen yet its
\* download, a call for each of its schema locations and its return; for an
\* active call what is left of that.
UrlWork(u) == 2 * Len(httpGet(fs, u).locations) + 1

CallWork(frame) ==
    IF frame.phase = "enter" THEN 1
    ELSE 2 * (Len(frame.content) - frame.i + 1) + 1

DownloadsLeft(seen, frames) ==
    SumOfSet(UrlWork, KnownUrls \ seen)
    + SumOfSet(LAMBDA i : CallWork(frames[i]), DOMAIN frames)

MainFailed == httpGet(fs, mainURL(curSpec)).status = "fail"

\* the dependencies whose download was tried and failed
FailedDependencies ==
    { u \in DOMAIN reads : u # mainURL(curSpec) /\ httpGet(fs, u).status = "fail" }

=============================================================================
